---- MODULE Spec2Model ----
(***************************************************************************)
(* Model of the caching forward proxy (src/unnamed/part_000): the LRUCache *)
(* class, the admission semaphore and the per-client worker thread_fn.     *)
(*                                                                         *)
(* Byte strings (std::string) are sequences of small naturals; size() is   *)
(* Len.  A std::list node is an entry record carrying the node's address   *)
(* in the field id, a list iterator is such an address, and End is the     *)
(* past-the-end iterator.                                                  *)
(*                                                                         *)
(* Two specifications share the definitions of the cache:                  *)
(*   SpecCache  workers at their cache call sites, get and put taken       *)
(*              statement block by statement block under cache_lock;       *)
(*   Spec       the acceptor and the whole worker life cycle, with get and *)
(*              put taken as single steps.                                 *)
(* A third specification, SpecRecv, takes the reception of the request     *)
(* headers recv by recv.                                                   *)
(***************************************************************************)
EXTENDS Integers, Sequences, FiniteSets, TLC

VARIABLES
    cache,            \* LRUCache cache: capacity_bytes, current_size, lru_list, cache_map
    cache_lock,       \* mutex cache_lock: NoOwner or the worker holding it
    seamaphore,       \* sem_t seamaphore: the number of free permits
    pc,               \* per worker: position in thread_fn
    raw_req,          \* per worker: string raw_req
    temp_cache_data,  \* per worker: string temp_cache_data of handle_request
    it,               \* per worker: iterator it of LRUCache::get
    entry_size,       \* per worker: size_t entry_size of LRUCache::put
    client_sock,      \* per worker: the accepted client socket: "none", "open", "closed"
    remote_sock,      \* per worker: remoteSocketID: "none", "open", "closed"
    client_out,       \* per worker: what has been written to the client socket
    tokens,           \* history: per worker, permits acquired minus permits released
    seq_cache,        \* history: the cache as the calls leave it when run one at a time
    seq_ret,          \* history: per worker, what its get returns when run one at a time
    recency,          \* history: keys by last use (get hit or put), most recent first
    last_op,          \* history: the last completed cache call
    outcome,          \* history: per worker, the way thread_fn took to line 268
                      \*   and whether its send to the client went through
    client_closes,    \* history: per worker, who has called close on its client socket
    remote_closes,    \* history: per worker, who has called close on its upstream socket
    total_bytes,      \* per worker: size_t total_bytes
    header_complete,  \* per worker: bool header_complete
    request,          \* ParsedRequest *request of the handle_request under study
    req_str,          \* string req_str of that handle_request
    server_port,      \* int server_port of that handle_request
    upstream,         \* the bytes of the upstream response that recv has yet to deliver
    upstream_read,    \* history: the bytes recv has delivered from upstream, in order
    buffer,           \* the bytes of vector buffer that the last recv filled
    total_sent,       \* size_t total_sent of the send_all under study
    handed,           \* history: the bytes send has accepted in that send_all
    send_ret,         \* ssize_t sent of send_all: what the last send returned
    errno,            \* errno after the last send: "none", "EINTR" or "EPIPE"
    main_pc,          \* position of main: "accept" in the loop of line 313, or "exited"
    main_errno,       \* errno of main after its last failed accept
    cache_head_pointer,      \* proxy_server_with_cache.c: the list of cache_element
    total_cache_size_bytes,  \* proxy_server_with_cache.c: int total_cache_size_bytes
    cache_mutex_lock,        \* proxy_server_with_cache.c: NoOwner or the thread holding it
    new_element_total_size,  \* per thread: the local of add_cache_element
    add_ret,                 \* per thread: what its last add_cache_element returned
    now,                     \* what time(NULL) returns
    cached_response,         \* proxy_server_with_cache.c, thread_fn: what find returned
    current_send_position,   \* proxy_server_with_cache.c, thread_fn: int current_send_position
    thread_counter,          \* proxy_server_with_cache.c, main: int thread_counter
    client_socket_fd_array,  \* proxy_server_with_cache.c, main: int client_socket_fd_array[MAX_CLIENTS]
    client_threads           \* proxy_server_with_cache.c: per thread main created, its argument
                             \*   socket_fd_ptr (an index of client_socket_fd_array), the
                             \*   descriptor accept returned for it, and its client_socket_fd

vars == <<cache, cache_lock, seamaphore, pc, raw_req,
          temp_cache_data, it, entry_size, client_sock, remote_sock, client_out,
          tokens, seq_cache, seq_ret, recency, last_op, outcome, client_closes,
          remote_closes, total_bytes, header_complete, request, req_str, server_port,
          upstream,
          upstream_read, buffer, total_sent, handed, send_ret, errno, main_pc,
          main_errno, cache_head_pointer, total_cache_size_bytes, cache_mutex_lock,
          new_element_total_size, add_ret, now, cached_response,
          current_send_position, thread_counter, client_socket_fd_array,
          client_threads>>

\* the locals of handle_request that SpecRewrite follows
RewriteVars == <<request, req_str, server_port>>

\* the upstream stream and the locals of the relay loop and of its send_all that
\* SpecSend follows
SendVars == <<upstream, upstream_read, buffer, total_sent, handed, send_ret, errno>>

\* the locals of main
MainVars == <<main_pc, main_errno>>

\* the cache of proxy_server_with_cache.c and the locals of its add_cache_element
ListVars ==
    <<cache_head_pointer, total_cache_size_bytes, cache_mutex_lock,
      new_element_total_size, add_ret, now>>

\* the locals of the cache hit in thread_fn of proxy_server_with_cache.c, and
\* the locals of the accept loop of its main with the threads it created
OldVars ==
    <<cached_response, current_send_position, thread_counter,
      client_socket_fd_array, client_threads>>

(***************************************************************************)
(* Bounds of the model.                                                    *)
(***************************************************************************)
\* MAX_CACHE_SIZE of the source (200 MiB), scaled down
MAX_CACHE_SIZE == 12
\* MAX_CLIENTS of the source (400), scaled down
MAX_CLIENTS == 1
\* threads that use the cache concurrently in SpecCache
NumThreads == 2
\* connections that may be in the proxy at once in Spec
NumWorkers == 2

Threads == 1 .. NumThreads
Workers == 1 .. NumWorkers

NoOwner == 0
End == 0
EmptyString == << >>

(***************************************************************************)
(* Requests and responses.  A complete request ends with the header        *)
(* terminator \r\n\r\n; its first byte stands for the request line.        *)
(***************************************************************************)
CRLFCRLF == <<13, 10, 13, 10>>
ReqGetA == <<71>> \o CRLFCRLF
ReqGetB == <<72>> \o CRLFCRLF
ReqGetC == <<73>> \o CRLFCRLF
ReqPost == <<80>> \o CRLFCRLF
ReqBad == <<88>> \o CRLFCRLF

RECURSIVE Fill(_, _)
Fill(b, n) == IF n <= 0 THEN << >> ELSE <<b>> \o Fill(b, n - 1)

\* the largest response that still fits next to a 5-byte key, and the next larger one
RespFit == Fill(1, MAX_CACHE_SIZE - 5)
RespOver == Fill(1, MAX_CACHE_SIZE - 4)

CacheRequests == {ReqGetA, ReqGetB, ReqGetC}
CacheResponses == {EmptyString, <<1>>, RespFit, RespOver}

(***************************************************************************)
(* LRUCache                                                                *)
(***************************************************************************)
EntrySize(e) == Len(e.url) + Len(e.data)

\* LRUCache(size_t cap)
LRUCache(cap) ==
    [capacity_bytes |-> cap, current_size |-> 0, lru_list |-> << >>,
     cache_map |-> << >>]

NodeIds(c) == {c.lru_list[i].id : i \in 1 .. Len(c.lru_list)}

\* the address the allocator hands out for a new list node
NewNode(c) == CHOOSE n \in 1 .. Len(c.lru_list) + 1 : n \notin NodeIds(c)

\* cache_map.find(url)
Find(c, url) == IF url \in DOMAIN c.cache_map THEN c.cache_map[url] ELSE End

Live(c, i) == i \in NodeIds(c)

\* *it.  Every iterator the code dereferences was read from cache_map under
\* cache_lock and is live (IteratorsLive); the other branch makes the operator total.
Deref(c, i) ==
    IF Live(c, i)
    THEN c.lru_list[CHOOSE n \in 1 .. Len(c.lru_list) : c.lru_list[n].id = i]
    ELSE [id |-> i, url |-> EmptyString, data |-> EmptyString]

Without(list, i) == SelectSeq(list, LAMBDA e : e.id # i)

MapErase(m, url) == [u \in DOMAIN m \ {url} |-> m[u]]

MapSet(m, url, i) == [u \in DOMAIN m \cup {url} |-> IF u = url THEN i ELSE m[u]]

\* a faulty Splice: the entry stays where it is
SpliceNoMove(c, i) == c

\* a faulty Splice: the entry is moved to the back
SpliceToBack(c, i) ==
    IF Live(c, i)
    THEN [c EXCEPT !.lru_list = Without(c.lru_list, i) \o <<Deref(c, i)>>]
    ELSE c

\* lru_list.splice(lru_list.begin(), lru_list, it)
Splice(c, i) ==
    IF Live(c, i)
    THEN [c EXCEPT !.lru_list = <<Deref(c, i)>> \o Without(c.lru_list, i)]
    ELSE c

\* a faulty RemoveOld: the entry goes, its size stays in current_size
RemoveOldKeepsSize(c, url) ==
    IF url \in DOMAIN c.cache_map
    THEN [c EXCEPT !.lru_list = Without(c.lru_list, c.cache_map[url]),
                   !.cache_map = MapErase(c.cache_map, url)]
    ELSE c

\* a faulty RemoveOld: the entry already stored under url is kept
RemoveOldKeeps(c, url) == c

\* put, lines 65-70: drop the entry already stored under url
RemoveOld(c, url) ==
    IF url \in DOMAIN c.cache_map
    THEN LET i == c.cache_map[url]
             sz == EntrySize(Deref(c, i))
         IN  [c EXCEPT !.current_size = c.current_size - sz,
                       !.lru_list = Without(c.lru_list, i),
                       !.cache_map = MapErase(c.cache_map, url)]
    ELSE c

\* a faulty TooLarge: an entry of exactly capacity_bytes is refused too
TooLargeOrEqual(c, sz) == sz >= c.capacity_bytes

\* put, line 63: the entry is larger than the whole cache
TooLarge(c, sz) == sz > c.capacity_bytes

\* a faulty MustEvict: the size of the new entry is left out
MustEvictIgnoresEntry(c, sz) ==
    c.current_size > c.capacity_bytes /\ c.lru_list # << >>

\* put, line 72: the condition of the eviction loop
MustEvict(c, sz) ==
    c.current_size + sz > c.capacity_bytes /\ c.lru_list # << >>

\* a faulty EvictOne: the key of the evicted entry stays in cache_map
EvictOneKeepsIndex(c) ==
    LET last == c.lru_list[Len(c.lru_list)]
    IN  [c EXCEPT !.current_size = c.current_size - EntrySize(last),
                  !.lru_list = SubSeq(c.lru_list, 1, Len(c.lru_list) - 1)]

\* a faulty EvictOne: the front of the list is evicted
EvictOneAtFront(c) ==
    LET first == c.lru_list[1]
    IN  [c EXCEPT !.current_size = c.current_size - EntrySize(first),
                  !.cache_map = MapErase(c.cache_map, first.url),
                  !.lru_list = Tail(c.lru_list)]

\* put, lines 73-76: one iteration of the eviction loop
EvictOne(c) ==
    LET last == c.lru_list[Len(c.lru_list)]
    IN  [c EXCEPT !.current_size = c.current_size - EntrySize(last),
                  !.cache_map = MapErase(c.cache_map, last.url),
                  !.lru_list = SubSeq(c.lru_list, 1, Len(c.lru_list) - 1)]

\* put, lines 79-81
Insert(c, url, data) ==
    LET i == NewNode(c)
    IN  [c EXCEPT !.lru_list = <<[id |-> i, url |-> url, data |-> data]>> \o c.lru_list,
                  !.cache_map = MapSet(c.cache_map, url, i),
                  !.current_size = c.current_size + Len(url) + Len(data)]

RECURSIVE EvictLoop(_, _)
EvictLoop(c, sz) == IF MustEvict(c, sz) THEN EvictLoop(EvictOne(c), sz) ELSE c

\* string LRUCache::get(string url), run without interruption
LRUGet(c, url) ==
    LET i == Find(c, url)
    IN  IF i = End
        THEN [cache |-> c, ret |-> EmptyString]
        ELSE [cache |-> Splice(c, i), ret |-> Deref(Splice(c, i), i).data]

\* void LRUCache::put(string url, const string& data), run without interruption
LRUPut(c, url, data) ==
    IF TooLarge(c, Len(url) + Len(data))
    THEN c
    ELSE Insert(EvictLoop(RemoveOld(c, url), Len(url) + Len(data)), url, data)

(***************************************************************************)
(* History variables                                                       *)
(***************************************************************************)
\* request->port == NULL: a string no C string equals
NoPort == <<0>>

\* no request has been parsed and no upstream request built
NoRequest == [method |-> << >>, path |-> << >>, version |-> << >>, host |-> << >>,
              port |-> NoPort,
              headers |-> << >>]
NoRewrite == request = NoRequest /\ req_str = << >> /\ server_port = 80

\* main is at line 314 and no accept has failed
AtAccept == main_pc = "accept" /\ main_errno = "none"

\* the list cache is empty and no thread uses it
NoList ==
    /\ cache_head_pointer = << >>
    /\ total_cache_size_bytes = 0
    /\ cache_mutex_lock = NoOwner
    /\ new_element_total_size = [w \in Workers |-> 0]
    /\ add_ret = [w \in Workers |-> 0]
    /\ now = 0

\* a slot of client_socket_fd_array, and a client_socket_fd, nothing was stored in
NoFd == 0

\* no cache hit of proxy_server_with_cache.c is under study, and its main has
\* accepted no connection
NoOld ==
    /\ cached_response = [data |-> << >>, len |-> 0]
    /\ current_send_position = 0
    /\ thread_counter = 0
    /\ client_socket_fd_array = [i \in 0 .. MAX_CLIENTS - 1 |-> NoFd]
    /\ client_threads = << >>

\* no relay is under study
NoSend ==
    /\ upstream = << >>
    /\ upstream_read = << >>
    /\ buffer = << >>
    /\ total_sent = 0
    /\ handed = << >>
    /\ send_ret = 0
    /\ errno = "none"

\* thread_fn has not reached line 268
NoOutcome == [path |-> "none", sent |-> TRUE]

NoOp == [op |-> "none", url |-> EmptyString, val |-> EmptyString,
         seq_val |-> EmptyString, puts |-> 0, put_val |-> EmptyString, gets |-> 0]

\* the key k has just been used: it becomes the most recent one
Touch(log, k) == <<k>> \o SelectSeq(log, LAMBDA u : u # k)

\* get(url) has returned val; run one at a time the calls make it return sv
AfterGet(prev, url, val, sv) ==
    LET same == prev.url = url
    IN  [op |-> "get", url |-> url, val |-> val, seq_val |-> sv,
         puts |-> IF same /\ prev.op = "put" THEN prev.puts ELSE 0,
         put_val |-> IF same /\ prev.op = "put" THEN prev.put_val ELSE EmptyString,
         gets |-> IF same /\ prev.op = "get" THEN 2 ELSE 1]

\* put(url, data) has returned; stored tells whether it was within capacity
AfterPut(prev, url, data, stored) ==
    LET same == prev.url = url /\ prev.op = "put" /\ prev.puts >= 1
    IN  [op |-> "put", url |-> url, val |-> data, seq_val |-> data,
         puts |-> IF ~stored THEN 0 ELSE IF same THEN 2 ELSE 1,
         put_val |-> IF stored THEN data ELSE EmptyString,
         gets |-> 0]

(***************************************************************************)
(* The cache calls of a worker, one statement block at a time.  The worker *)
(* calls get(raw_req) (thread_fn, line 240) and, when that returned the    *)
(* empty string and handle_request got as far as line 195, put(raw_req,    *)
(* temp_cache_data).                                                       *)
(***************************************************************************)
\* a faulty CanLock: the mutex keeps out no thread but its holder
CanLockUnlessOwn(t) == cache_lock # t

\* a faulty CanLock: the calls do not exclude each other
CanLockAlways(t) == TRUE

\* lock_guard<mutex> lock(cache_lock): the constructor returns once the mutex is free
CanLock(t) == cache_lock = NoOwner

OutsideCache ==
    UNCHANGED <<seamaphore, client_sock, remote_sock,
                client_out, tokens, outcome, client_closes, remote_closes,
                total_bytes, header_complete, RewriteVars, SendVars, MainVars, ListVars, OldVars>>

\* thread_fn, line 240: get(raw_req) is called; get, line 53
GetLock(t, r) ==
    /\ pc[t] = "lookup"
    /\ CanLock(t)
    /\ cache_lock' = t
    /\ raw_req' = [raw_req EXCEPT ![t] = r]
    /\ pc' = [pc EXCEPT ![t] = "get_find"]
    /\ seq_cache' = LRUGet(seq_cache, r).cache
    /\ seq_ret' = [seq_ret EXCEPT ![t] = LRUGet(seq_cache, r).ret]
    /\ UNCHANGED <<cache, temp_cache_data, it, entry_size, recency, last_op>>
    /\ OutsideCache

\* get, lines 54-55; on a miss get returns "" and thread_fn takes the branch of
\* line 246
GetFind(t) ==
    /\ pc[t] = "get_find"
    /\ LET i == Find(cache, raw_req[t])
       IN  IF i = End
           THEN /\ cache_lock' = NoOwner
                /\ pc' = [pc EXCEPT ![t] = "miss"]
                /\ last_op' = AfterGet(last_op, raw_req[t], EmptyString, seq_ret[t])
                /\ seq_ret' = [seq_ret EXCEPT ![t] = EmptyString]
                /\ UNCHANGED it
           ELSE /\ it' = [it EXCEPT ![t] = i]
                /\ pc' = [pc EXCEPT ![t] = "get_splice"]
                /\ UNCHANGED <<cache_lock, last_op, seq_ret>>
    /\ UNCHANGED <<cache, raw_req, temp_cache_data, entry_size, seq_cache, recency>>
    /\ OutsideCache

\* get, line 56
GetSplice(t) ==
    /\ pc[t] = "get_splice"
    /\ cache' = Splice(cache, it[t])
    /\ recency' = Touch(recency, raw_req[t])
    /\ pc' = [pc EXCEPT ![t] = "get_ret"]
    /\ UNCHANGED <<cache_lock, raw_req, temp_cache_data, it, entry_size, seq_cache,
                   seq_ret, last_op>>
    /\ OutsideCache

\* get, line 57, with the release of cache_lock by the guard; thread_fn, line 242:
\* a non-empty result is sent to the client and the worker is done with the cache
GetRet(t) ==
    /\ pc[t] = "get_ret"
    /\ LET ret == Deref(cache, it[t]).data
       IN  /\ last_op' = AfterGet(last_op, raw_req[t], ret, seq_ret[t])
           /\ IF ret # EmptyString
              THEN /\ pc' = [pc EXCEPT ![t] = "lookup"]
                   /\ raw_req' = [raw_req EXCEPT ![t] = EmptyString]
              ELSE /\ pc' = [pc EXCEPT ![t] = "miss"]
                   /\ UNCHANGED raw_req
    /\ seq_ret' = [seq_ret EXCEPT ![t] = EmptyString]
    /\ it' = [it EXCEPT ![t] = End]
    /\ cache_lock' = NoOwner
    /\ UNCHANGED <<cache, temp_cache_data, entry_size, seq_cache, recency>>
    /\ OutsideCache

\* thread_fn, lines 250-258, and handle_request, lines 176 and 179-182: after a
\* miss the worker leaves without calling put
MissLeave(t) ==
    /\ pc[t] = "miss"
    /\ pc' = [pc EXCEPT ![t] = "lookup"]
    /\ raw_req' = [raw_req EXCEPT ![t] = EmptyString]
    /\ UNCHANGED <<cache, cache_lock, temp_cache_data, it, entry_size, seq_cache,
                   seq_ret, recency, last_op>>
    /\ OutsideCache

\* handle_request, line 195: put(url, temp_cache_data) with the bytes d the relay
\* collected; put, line 61
PutLock(t, d) ==
    /\ pc[t] = "miss"
    /\ CanLock(t)
    /\ cache_lock' = t
    /\ temp_cache_data' = [temp_cache_data EXCEPT ![t] = d]
    /\ pc' = [pc EXCEPT ![t] = "put_size"]
    /\ seq_cache' = LRUPut(seq_cache, raw_req[t], d)
    /\ UNCHANGED <<cache, raw_req, it, entry_size, seq_ret, recency, last_op>>
    /\ OutsideCache

\* the worker is done with the cache: handle_request, lines 198-200
Leave(t) ==
    /\ pc' = [pc EXCEPT ![t] = "lookup"]
    /\ raw_req' = [raw_req EXCEPT ![t] = EmptyString]
    /\ temp_cache_data' = [temp_cache_data EXCEPT ![t] = EmptyString]
    /\ entry_size' = [entry_size EXCEPT ![t] = 0]

\* put, lines 62-63
PutSize(t) ==
    /\ pc[t] = "put_size"
    /\ LET sz == Len(raw_req[t]) + Len(temp_cache_data[t])
       IN  IF TooLarge(cache, sz)
           THEN /\ cache_lock' = NoOwner
                /\ last_op' = AfterPut(last_op, raw_req[t], temp_cache_data[t], FALSE)
                /\ Leave(t)
           ELSE /\ entry_size' = [entry_size EXCEPT ![t] = sz]
                /\ pc' = [pc EXCEPT ![t] = "put_old"]
                /\ UNCHANGED <<cache_lock, last_op, raw_req, temp_cache_data>>
    /\ UNCHANGED <<cache, it, seq_cache, seq_ret, recency>>
    /\ OutsideCache

\* put, lines 65-70
PutOld(t) ==
    /\ pc[t] = "put_old"
    /\ cache' = RemoveOld(cache, raw_req[t])
    /\ pc' = [pc EXCEPT ![t] = "put_evict"]
    /\ UNCHANGED <<cache_lock, raw_req, temp_cache_data, it, entry_size, seq_cache,
                   seq_ret, recency, last_op>>
    /\ OutsideCache

\* put, lines 72-77: one test of the loop condition, and one iteration if it holds
PutEvict(t) ==
    /\ pc[t] = "put_evict"
    /\ IF MustEvict(cache, entry_size[t])
       THEN /\ cache' = EvictOne(cache)
            /\ pc' = pc
       ELSE /\ cache' = cache
            /\ pc' = [pc EXCEPT ![t] = "put_insert"]
    /\ UNCHANGED <<cache_lock, raw_req, temp_cache_data, it, entry_size, seq_cache,
                   seq_ret, recency, last_op>>
    /\ OutsideCache

\* put, lines 79-82, with the release of cache_lock by the guard
PutInsert(t) ==
    /\ pc[t] = "put_insert"
    /\ cache' = Insert(cache, raw_req[t], temp_cache_data[t])
    /\ recency' = Touch(recency, raw_req[t])
    /\ last_op' = AfterPut(last_op, raw_req[t], temp_cache_data[t], TRUE)
    /\ cache_lock' = NoOwner
    /\ Leave(t)
    /\ UNCHANGED <<it, seq_cache, seq_ret>>
    /\ OutsideCache

(***************************************************************************)
(* SpecCache: NumThreads admitted workers, each past the reception of its  *)
(* request, as concurrent callers of the cache.  The admission gate plays  *)
(* no part: each of these workers holds its permit throughout.             *)
(***************************************************************************)
InitCache ==
    /\ cache = LRUCache(MAX_CACHE_SIZE)
    /\ cache_lock = NoOwner
    /\ seamaphore = 0
    /\ pc = [t \in Threads |-> "lookup"]
    /\ raw_req = [t \in Threads |-> EmptyString]
    /\ temp_cache_data = [t \in Threads |-> EmptyString]
    /\ it = [t \in Threads |-> End]
    /\ entry_size = [t \in Threads |-> 0]
    /\ client_sock = [t \in Threads |-> "open"]
    /\ remote_sock = [t \in Threads |-> "none"]
    /\ client_out = [t \in Threads |-> << >>]
    /\ tokens = [t \in Threads |-> 1]
    /\ seq_cache = LRUCache(MAX_CACHE_SIZE)
    /\ seq_ret = [t \in Threads |-> EmptyString]
    /\ recency = << >>
    /\ last_op = NoOp
    /\ outcome = [t \in Threads |-> NoOutcome]
    /\ client_closes = [t \in Threads |-> << >>]
    /\ remote_closes = [t \in Threads |-> << >>]
    /\ total_bytes = [t \in Threads |-> 0]
    /\ header_complete = [t \in Threads |-> FALSE]
    /\ NoRewrite
    /\ NoSend
    /\ AtAccept
    /\ NoList
    /\ NoOld

NextCache ==
    \E t \in Threads :
        \/ \E r \in CacheRequests : GetLock(t, r)
        \/ GetFind(t)
        \/ GetSplice(t)
        \/ GetRet(t)
        \/ MissLeave(t)
        \/ \E d \in CacheResponses : PutLock(t, d)
        \/ PutSize(t)
        \/ PutOld(t)
        \/ PutEvict(t)
        \/ PutInsert(t)

SpecCache == InitCache /\ [][NextCache]_vars

(***************************************************************************)
(* Properties of the cache, checked under SpecCache                        *)
(***************************************************************************)
RECURSIVE SumSizes(_)
SumSizes(list) ==
    IF list = << >> THEN 0 ELSE EntrySize(Head(list)) + SumSizes(Tail(list))

Indices(list) == 1 .. Len(list)
Keys(c) == {c.lru_list[i].url : i \in Indices(c.lru_list)}
Pairs(c) == {<<c.lru_list[i].url, c.lru_list[i].data>> : i \in Indices(c.lru_list)}
EntriesOf(c, k) == {i \in Indices(c.lru_list) : c.lru_list[i].url = k}
Pos(log, k) == CHOOSE n \in 1 .. Len(log) : log[n] = k

InGet(t) == pc[t] \in {"get_find", "get_splice", "get_ret"}
InPut(t) == pc[t] \in {"put_size", "put_old", "put_evict", "put_insert"}
Quiescent == \A t \in Threads : ~InGet(t) /\ ~InPut(t)
Unlocked == cache_lock = NoOwner

\* every iterator a worker holds designates a node of the list
IteratorsLive ==
    \A t \in Threads : pc[t] \in {"get_splice", "get_ret"} => Live(cache, it[t])

\* C1: whenever no worker is inside get or put (cache_lock is free), current_size
\* is at most capacity_bytes.
C1_SizeWithinCapacity ==
    Unlocked => cache.current_size <= cache.capacity_bytes

\* the cache is exactly full, with two entries, and an earlier entry was evicted
C1_Witness ==
    /\ Unlocked
    /\ cache.current_size = cache.capacity_bytes
    /\ Len(cache.lru_list) = 2
    /\ Len(recency) = 3

\* C2: after every completed get or put, current_size is the sum of the entry
\* sizes, the keys of cache_map are the keys of the list, no key is in the list
\* twice, and cache_map[k] is the node that carries k.
C2_IndexMatchesList ==
    Unlocked =>
        /\ cache.current_size = SumSizes(cache.lru_list)
        /\ DOMAIN cache.cache_map = Keys(cache)
        /\ \A k \in Keys(cache) : Cardinality(EntriesOf(cache, k)) = 1
        /\ Cardinality(NodeIds(cache)) = Len(cache.lru_list)
        /\ \A k \in DOMAIN cache.cache_map :
               /\ Live(cache, cache.cache_map[k])
               /\ Deref(cache, cache.cache_map[k]).url = k

\* two entries are stored after a third key was evicted
C2_Witness ==
    /\ Unlocked
    /\ last_op.op = "put"
    /\ Len(cache.lru_list) = 2
    /\ \E k \in CacheRequests : Len(recency) = 3 /\ k \notin DOMAIN cache.cache_map

\* C3: put(k, v) stores the entry iff len(k)+len(v) <= capacity_bytes, and a put
\* with a larger entry returns at once and changes nothing of the cache.
C3_StoredIffFits ==
    /\ [](Unlocked /\ last_op.op = "put" =>
             (Len(last_op.url) + Len(last_op.val) <= cache.capacity_bytes
                 <=> /\ cache.lru_list # << >>
                     /\ cache.lru_list[1].url = last_op.url
                     /\ cache.lru_list[1].data = last_op.val))
    /\ [][\A t \in Threads :
            /\ (pc[t] = "miss" /\ pc'[t] = "put_size") => cache' = cache
            /\ (pc[t] = "put_size"
                  /\ Len(raw_req[t]) + Len(temp_cache_data[t]) > cache.capacity_bytes)
                 => /\ cache' = cache
                    /\ pc'[t] \in {"put_size", "lookup"}]_vars

\* a put of capacity_bytes + 1 bytes has returned, and its key is still stored
\* with the value of an earlier put of exactly capacity_bytes bytes
C3_Witness ==
    /\ Unlocked
    /\ last_op.op = "put"
    /\ Len(last_op.url) + Len(last_op.val) = cache.capacity_bytes + 1
    /\ Len(cache.lru_list) = 1
    /\ cache.lru_list[1].url = last_op.url
    /\ EntrySize(cache.lru_list[1]) = cache.capacity_bytes

\* C4: put evicts only the tail of the list, one entry per iteration and only
\* while current_size + s > capacity_bytes; the evicted key was used (get hit or
\* put) less recently than every key that stays, and no other step of any call
\* removes a key other than the one being put.
C4_EvictsLeastRecent ==
    [][\A t \in Threads :
          /\ (pc[t] = "put_evict" /\ cache' # cache) =>
                LET n == Len(cache.lru_list)
                    victim == cache.lru_list[n].url
                IN  /\ cache.current_size + entry_size[t] > cache.capacity_bytes
                    /\ cache'.lru_list = SubSeq(cache.lru_list, 1, n - 1)
                    /\ \A u \in Keys(cache') : Pos(recency, u) < Pos(recency, victim)
          /\ (pc[t] = "put_evict" /\ pc'[t] = "put_insert") =>
                cache.current_size + entry_size[t] <= cache.capacity_bytes
          /\ (pc[t] # "put_evict" /\ pc'[t] # pc[t]) =>
                Keys(cache) \ Keys(cache') \subseteq {raw_req[t]}]_vars

\* a put is evicting the tail while an entry that was stored earlier, and hit by a
\* get since, stays at the front
C4_Witness ==
    \E t \in Threads :
        /\ pc[t] = "put_evict"
        /\ Len(cache.lru_list) = 1
        /\ Len(recency) = 2
        /\ recency[1] = cache.lru_list[1].url
        /\ cache.lru_list[1].id = 1
        /\ last_op.op = "get"
        /\ last_op.val # EmptyString

\* C5: right after a get(k) that found k, and right after a put(k, v) within
\* capacity, the entry of k is the front of the recency list.
C5_UsedEntryAtFront ==
    /\ \A t \in Threads :
           pc[t] = "get_ret" =>
               cache.lru_list # << >> /\ cache.lru_list[1].url = raw_req[t]
    /\ (Unlocked /\ last_op.op = "get" /\ last_op.val # EmptyString) =>
           cache.lru_list # << >> /\ cache.lru_list[1].url = last_op.url
    /\ (Unlocked /\ last_op.op = "put" /\ last_op.puts >= 1) =>
           cache.lru_list # << >> /\ cache.lru_list[1].url = last_op.url

\* a get has hit the older of two entries, which is now the front
C5_Witness ==
    /\ Unlocked
    /\ last_op.op = "get"
    /\ last_op.val # EmptyString
    /\ Len(cache.lru_list) = 2
    /\ cache.lru_list[1].id = 1
    /\ cache.lru_list[2].id = 2
    /\ Len(recency) = 2

\* C6: after put(k, v1); put(k, v2), both within capacity and one right after
\* the other, the list holds one entry for k, with v2, current_size counts it
\* once, and a get(k) that comes next returns v2.
C6_PutOverwrites ==
    /\ (last_op.op = "get" /\ last_op.puts = 2) => last_op.val = last_op.put_val
    /\ (Unlocked /\ last_op.puts = 2) =>
           /\ Cardinality(EntriesOf(cache, last_op.url)) = 1
           /\ \A i \in EntriesOf(cache, last_op.url) :
                  cache.lru_list[i].data = last_op.put_val
           /\ cache.current_size = SumSizes(cache.lru_list)

\* get(k) has returned the non-empty v2 of the second of two puts on k
C6_Witness ==
    /\ last_op.op = "get"
    /\ last_op.puts = 2
    /\ last_op.val # EmptyString

\* C7: no step of get changes the stored pairs or current_size; a get that misses
\* changes nothing; a hit moves the entry of k to the front and keeps the order
\* of the others; a get(k) right after a get(k) returns the same value and
\* leaves the cache as the first one left it.
C7_GetOnlyReorders ==
    [][\A t \in Threads :
          /\ (InGet(t) \/ (pc[t] = "lookup" /\ pc'[t] = "get_find")) =>
                /\ Pairs(cache') = Pairs(cache)
                /\ cache'.current_size = cache.current_size
                /\ cache'.cache_map = cache.cache_map
                /\ Len(cache'.lru_list) = Len(cache.lru_list)
          /\ (pc[t] = "get_find" /\ pc'[t] = "miss") =>
                cache' = cache /\ raw_req[t] \notin Keys(cache)
          /\ (pc[t] = "get_splice" /\ pc'[t] = "get_ret") =>
                /\ cache'.lru_list[1].url = raw_req[t]
                /\ Tail(cache'.lru_list) =
                       SelectSeq(cache.lru_list, LAMBDA e : e.url # raw_req[t])
                /\ (last_op.op = "get" /\ last_op.url = raw_req[t]) => cache' = cache
          /\ (InGet(t) /\ ~InGet(t)' /\ last_op.op = "get"
                 /\ last_op.url = raw_req[t]) =>
                /\ cache' = cache
                /\ last_op'.val = last_op.val]_vars

\* two gets of the same stored key have returned one after the other
C7_Witness ==
    /\ last_op.op = "get"
    /\ last_op.gets = 2
    /\ last_op.val # EmptyString
    /\ Len(cache.lru_list) = 2

\* C8: get and put are atomic: every value a get returns is the value it returns
\* when the calls run one at a time in the order in which they took cache_lock,
\* and whenever no call is in progress the cache is the cache those calls leave.
C8_CallsAreAtomic ==
    /\ last_op.val = last_op.seq_val
    /\ Quiescent => cache = seq_cache

\* a worker is inside put while another worker, which missed the same key, is
\* about to put it too
C8_Witness ==
    \E t, u \in Threads :
        /\ t # u
        /\ pc[t] = "put_insert"
        /\ pc[u] = "miss"
        /\ raw_req[t] = raw_req[u]
        /\ cache.lru_list # << >>

(***************************************************************************)
(* Spec: the acceptor and the workers.                                     *)
(*                                                                         *)
(* A worker slot w is a thread that main creates for one accepted          *)
(* connection; once the thread has returned its slot serves the next       *)
(* connection.  A step of a worker runs from one blocking call (sem_wait,  *)
(* recv, the mutex of the cache, connect, send) up to the next one.  A     *)
(* failing accept starts no worker and leaves this state as it is.         *)
(***************************************************************************)
\* the complete requests a client sends: one that is fetched and cached, one with
\* another method and one that does not parse (how the cache treats several keys
\* is the matter of SpecCache)
Requests == {ReqGetA, ReqPost, ReqBad}

\* longest upstream response of the model, in bytes
MaxResponse == 2

\* the bytes one recv on the upstream socket may deliver
RelayChunks == {c \in {<<1>>, <<1, 1>>} : Len(c) <= MaxResponse}

\* a faulty ParseFails: every request parses
ParseNeverFails(r) == FALSE

\* ParsedRequest_parse and the method it finds: the first byte of the model's
\* requests stands for the request line
ParseFails(r) == r[1] = 88
Method(r) == IF r[1] = 80 THEN "POST" ELSE "GET"

\* a faulty CanAcquire: sem_wait does not wait
CanAcquireAlways(sem) == TRUE

\* sem_wait(&seamaphore) returns once a permit is there.  The process installs no
\* signal handler (main, line 283, only ignores SIGPIPE), so the wait is not
\* interrupted.
CanAcquire(sem) == sem > 0

\* sem_wait takes one permit
SemWait(sem) == sem - 1

\* a faulty SemPost: the permit is not given back
SemPostForgotten(sem) == sem

\* ~SemGuard: sem_post(sem) gives one permit back
SemPost(sem) == sem + 1

\* a faulty AnswersIncomplete: the 400 is sent to a peer that sent nothing
AnswersIncompleteAlways(total) == TRUE

\* thread_fn, line 265: an incomplete request is answered if (total_bytes > 0)
AnswersIncomplete(total) == total > 0

\* a faulty SendError: the reply is written twice
SendErrorTwice(out, code, sent) == IF sent THEN out \o <<code, code>> ELSE out

\* a faulty SendError: every status code takes the default branch of the switch
SendErrorInternal(out, code, sent) == IF sent THEN out \o <<500>> ELSE out

\* sendErrorMessage(socket, status_code): the reply stands as its status code;
\* send_all may fail, its result is not looked at
SendError(out, code, sent) == IF sent THEN out \o <<code>> ELSE out

\* Spec takes get, put and the reception of the headers as single steps: the
\* variables of their small steps stay as they are
CacheSteps ==
    UNCHANGED <<cache_lock, it, entry_size, seq_cache, seq_ret, recency, last_op,
                total_bytes, header_complete, RewriteVars, SendVars, MainVars, ListVars, OldVars>>

\* the worker has no further use for its request and its response buffer: it goes
\* on to line 268
ToClose(w) ==
    /\ pc' = [pc EXCEPT ![w] = "close"]
    /\ raw_req' = [raw_req EXCEPT ![w] = EmptyString]
    /\ temp_cache_data' = [temp_cache_data EXCEPT ![w] = EmptyString]

\* the way thread_fn took to line 268, and whether its send_all to the client
\* went through
Ends(w, how, sent) == outcome' = [outcome EXCEPT ![w] = [path |-> how, sent |-> sent]]

\* a faulty CloseBy: the descriptor is closed a second time
CloseByTwice(log, party) == log \o <<party, party>>

\* close(fd), called by party: the call is entered in the log of the socket
CloseBy(log, party) == Append(log, party)

\* a faulty Closed: the descriptor stays open
ClosedLeaks(sock) == sock

\* the state of a descriptor after close
Closed(sock) == "closed"

\* no thread runs on slot w: no connection has used it, or its connection is over
Free(w) == pc[w] \in {"none", "done", "no_thread"}

\* main, lines 314-323: accept returns a socket and pthread_create starts
\* thread_fn on it
AcceptAndSpawn(w) ==
    /\ main_pc = "accept"
    /\ Free(w)
    /\ \A v \in Workers : v < w => ~Free(v)
    /\ pc' = [pc EXCEPT ![w] = "sem_wait"]
    /\ client_sock' = [client_sock EXCEPT ![w] = "open"]
    /\ remote_sock' = [remote_sock EXCEPT ![w] = "none"]
    /\ client_closes' = [client_closes EXCEPT ![w] = << >>]
    /\ remote_closes' = [remote_closes EXCEPT ![w] = << >>]
    /\ UNCHANGED <<cache, seamaphore, raw_req, temp_cache_data, client_out, tokens,
                   outcome>>
    /\ CacheSteps

\* main, lines 314-327: accept returns a socket, pthread_create fails, and main
\* closes the socket; no thread runs on it
SpawnFails(w) ==
    /\ main_pc = "accept"
    /\ Free(w)
    /\ \A v \in Workers : v < w => ~Free(v)
    /\ pc' = [pc EXCEPT ![w] = "no_thread"]
    /\ client_sock' = [client_sock EXCEPT ![w] = Closed("open")]
    /\ remote_sock' = [remote_sock EXCEPT ![w] = "none"]
    /\ client_closes' = [client_closes EXCEPT ![w] = CloseBy(<< >>, "main")]
    /\ remote_closes' = [remote_closes EXCEPT ![w] = << >>]
    /\ UNCHANGED <<cache, seamaphore, raw_req, temp_cache_data, client_out, tokens,
                   outcome>>
    /\ CacheSteps

\* thread_fn, lines 208-216
Admit(w) ==
    /\ pc[w] = "sem_wait"
    /\ CanAcquire(seamaphore)
    /\ seamaphore' = SemWait(seamaphore)
    /\ tokens' = [tokens EXCEPT ![w] = @ + 1]
    /\ pc' = [pc EXCEPT ![w] = "recv"]
    /\ UNCHANGED <<cache, raw_req, temp_cache_data, client_sock, remote_sock,
                   client_out, outcome, client_closes, remote_closes>>
    /\ CacheSteps

\* thread_fn, lines 219-237, ending at line 235: the header terminator has come
\* and raw_req is r
RecvHeaders(w, r) ==
    /\ pc[w] = "recv"
    /\ raw_req' = [raw_req EXCEPT ![w] = r]
    /\ pc' = [pc EXCEPT ![w] = "lookup"]
    /\ UNCHANGED <<cache, seamaphore, temp_cache_data, client_sock, remote_sock,
                   client_out, tokens, outcome, client_closes, remote_closes>>
    /\ CacheSteps

\* thread_fn, lines 219-237, ending without the terminator after `got` bytes (recv
\* returned 0 or an error, or 64 KiB were read), and lines 263-266
RecvIncomplete(w, got, sent) ==
    /\ pc[w] = "recv"
    /\ client_out' = [client_out EXCEPT ![w] =
                         IF AnswersIncomplete(got) THEN SendError(@, 400, sent) ELSE @]
    /\ ToClose(w)
    /\ Ends(w, "incomplete", ~AnswersIncomplete(got) \/ sent)
    /\ UNCHANGED <<cache, seamaphore, client_sock, remote_sock, tokens,
                   client_closes, remote_closes>>
    /\ CacheSteps

\* thread_fn, lines 239-245: get(raw_req) returns a non-empty string, which is
\* sent to the client
LookupHit(w, sent) ==
    /\ pc[w] = "lookup"
    /\ cache_lock = NoOwner
    /\ LRUGet(cache, raw_req[w]).ret # EmptyString
    /\ cache' = LRUGet(cache, raw_req[w]).cache
    /\ client_out' = [client_out EXCEPT ![w] =
                         IF sent THEN @ \o LRUGet(cache, raw_req[w]).ret ELSE @]
    /\ ToClose(w)
    /\ Ends(w, "hit", sent)
    /\ UNCHANGED <<seamaphore, client_sock, remote_sock, tokens, client_closes,
                   remote_closes>>
    /\ CacheSteps

\* thread_fn, lines 239-259: get(raw_req) returns the empty string; the request is
\* parsed and answered 400 or 501, or handle_request builds the upstream request
\* (lines 154-174) and calls connectRemoteServer
LookupMiss(w, sent) ==
    /\ pc[w] = "lookup"
    /\ cache_lock = NoOwner
    /\ LRUGet(cache, raw_req[w]).ret = EmptyString
    /\ cache' = LRUGet(cache, raw_req[w]).cache
    /\ IF ParseFails(raw_req[w])
       THEN /\ client_out' = [client_out EXCEPT ![w] = SendError(@, 400, sent)]
            /\ ToClose(w)
            /\ Ends(w, "parse_fails", sent)
       ELSE IF Method(raw_req[w]) # "GET"
       THEN /\ client_out' = [client_out EXCEPT ![w] = SendError(@, 501, sent)]
            /\ ToClose(w)
            /\ Ends(w, "not_get", sent)
       ELSE /\ pc' = [pc EXCEPT ![w] = "connect"]
            /\ UNCHANGED <<client_out, raw_req, temp_cache_data, outcome>>
    /\ UNCHANGED <<seamaphore, client_sock, remote_sock, tokens, client_closes,
                   remote_closes>>
    /\ CacheSteps

\* connectRemoteServer succeeds (line 126) and handle_request goes on to send the
\* request (line 179)
ConnectOk(w) ==
    /\ pc[w] = "connect"
    /\ remote_sock' = [remote_sock EXCEPT ![w] = "open"]
    /\ pc' = [pc EXCEPT ![w] = "send_request"]
    /\ UNCHANGED <<cache, seamaphore, raw_req, temp_cache_data, client_sock,
                   client_out, tokens, outcome, client_closes, remote_closes>>
    /\ CacheSteps

\* connectRemoteServer fails at socket (line 108), at gethostbyname (lines
\* 111-114) or at connect (lines 122-125); in the last two the descriptor that
\* socket returned is closed.  handle_request returns -1 (line 176) and thread_fn
\* answers 500 (line 255)
ConnectFails(w, at, sent) ==
    /\ pc[w] = "connect"
    /\ remote_sock' = [remote_sock EXCEPT ![w] =
                          IF at = "socket" THEN @ ELSE Closed("open")]
    /\ remote_closes' = [remote_closes EXCEPT ![w] =
                            IF at = "socket" THEN @ ELSE CloseBy(@, "worker")]
    /\ client_out' = [client_out EXCEPT ![w] = SendError(@, 500, sent)]
    /\ ToClose(w)
    /\ Ends(w, "connect_fails", sent)
    /\ UNCHANGED <<cache, seamaphore, client_sock, tokens, client_closes>>
    /\ CacheSteps

\* handle_request, line 179: the request went out; the relay starts (lines 185-187)
SendRequestOk(w) ==
    /\ pc[w] = "send_request"
    /\ temp_cache_data' = [temp_cache_data EXCEPT ![w] = EmptyString]
    /\ pc' = [pc EXCEPT ![w] = "relay"]
    /\ UNCHANGED <<cache, seamaphore, raw_req, client_sock, remote_sock, client_out,
                   tokens, outcome, client_closes, remote_closes>>
    /\ CacheSteps

\* handle_request, lines 179-182: send_all fails, the upstream socket is closed,
\* and thread_fn answers 500 (line 255)
SendRequestFails(w, sent) ==
    /\ pc[w] = "send_request"
    /\ remote_sock' = [remote_sock EXCEPT ![w] = Closed(@)]
    /\ remote_closes' = [remote_closes EXCEPT ![w] = CloseBy(@, "worker")]
    /\ client_out' = [client_out EXCEPT ![w] = SendError(@, 500, sent)]
    /\ ToClose(w)
    /\ Ends(w, "send_request_fails", sent)
    /\ UNCHANGED <<cache, seamaphore, client_sock, tokens, client_closes>>
    /\ CacheSteps

\* handle_request, lines 189-191: recv delivers chunk, which is sent to the client
\* and appended to temp_cache_data
RelayChunk(w, chunk) ==
    /\ pc[w] = "relay"
    /\ Len(temp_cache_data[w]) + Len(chunk) <= MaxResponse
    /\ client_out' = [client_out EXCEPT ![w] = @ \o chunk]
    /\ temp_cache_data' = [temp_cache_data EXCEPT ![w] = @ \o chunk]
    /\ UNCHANGED <<cache, seamaphore, pc, raw_req, client_sock, remote_sock, tokens,
                   outcome, client_closes, remote_closes>>
    /\ CacheSteps

\* handle_request, lines 195-200, after the loop of line 189 has ended:
\* put(url, temp_cache_data) is called, the upstream socket is closed, 0 is returned
AfterRelay(w) ==
    /\ cache_lock = NoOwner
    /\ cache' = LRUPut(cache, raw_req[w], temp_cache_data[w])
    /\ remote_sock' = [remote_sock EXCEPT ![w] = Closed(@)]
    /\ remote_closes' = [remote_closes EXCEPT ![w] = CloseBy(@, "worker")]
    /\ ToClose(w)

\* handle_request, line 189: recv on the upstream socket returns recved, 0 at the
\* end of the stream or -1 for an error; the loop ends, and lines 195-200 follow
RelayEnds(w, recved) ==
    /\ pc[w] = "relay"
    /\ AfterRelay(w)
    /\ Ends(w, IF recved = 0 THEN "eof" ELSE "recv_error", TRUE)
    /\ UNCHANGED <<seamaphore, client_sock, client_out, tokens, client_closes>>
    /\ CacheSteps

\* handle_request, lines 189-190: recv delivers chunk and send_all fails after n
\* of its bytes have gone to the client; the loop ends without the chunk in
\* temp_cache_data, and lines 195-200 follow
RelaySendFails(w, chunk, n) ==
    /\ pc[w] = "relay"
    /\ Len(temp_cache_data[w]) + Len(chunk) <= MaxResponse
    /\ n < Len(chunk)
    /\ client_out' = [client_out EXCEPT ![w] = @ \o SubSeq(chunk, 1, n)]
    /\ AfterRelay(w)
    /\ Ends(w, "client_send_fails", FALSE)
    /\ UNCHANGED <<seamaphore, client_sock, tokens, client_closes>>
    /\ CacheSteps

\* thread_fn, lines 268-269
CloseClient(w) ==
    /\ pc[w] = "close"
    /\ client_sock' = [client_sock EXCEPT ![w] = Closed(@)]
    /\ client_closes' = [client_closes EXCEPT ![w] = CloseBy(@, "worker")]
    /\ client_out' = [client_out EXCEPT ![w] = << >>]
    /\ outcome' = [outcome EXCEPT ![w] = NoOutcome]
    /\ pc' = [pc EXCEPT ![w] = "release"]
    /\ UNCHANGED <<cache, seamaphore, raw_req, temp_cache_data, remote_sock, tokens,
                   remote_closes>>
    /\ CacheSteps

\* thread_fn, lines 270-271: the destructor of guard posts the semaphore and the
\* thread ends
Release(w) ==
    /\ pc[w] = "release"
    /\ seamaphore' = SemPost(seamaphore)
    /\ tokens' = [tokens EXCEPT ![w] = @ - 1]
    /\ pc' = [pc EXCEPT ![w] = "done"]
    /\ UNCHANGED <<cache, raw_req, temp_cache_data, client_sock, remote_sock,
                   client_out, outcome, client_closes, remote_closes>>
    /\ CacheSteps

\* main, lines 278-311: the semaphore holds MAX_CLIENTS permits, the cache is
\* empty, no worker exists
Init ==
    /\ cache = LRUCache(MAX_CACHE_SIZE)
    /\ cache_lock = NoOwner
    /\ seamaphore = MAX_CLIENTS
    /\ pc = [w \in Workers |-> "none"]
    /\ raw_req = [w \in Workers |-> EmptyString]
    /\ temp_cache_data = [w \in Workers |-> EmptyString]
    /\ it = [w \in Workers |-> End]
    /\ entry_size = [w \in Workers |-> 0]
    /\ client_sock = [w \in Workers |-> "none"]
    /\ remote_sock = [w \in Workers |-> "none"]
    /\ client_out = [w \in Workers |-> << >>]
    /\ tokens = [w \in Workers |-> 0]
    /\ seq_cache = LRUCache(MAX_CACHE_SIZE)
    /\ seq_ret = [w \in Workers |-> EmptyString]
    /\ recency = << >>
    /\ last_op = NoOp
    /\ outcome = [w \in Workers |-> NoOutcome]
    /\ client_closes = [w \in Workers |-> << >>]
    /\ remote_closes = [w \in Workers |-> << >>]
    /\ total_bytes = [w \in Workers |-> 0]
    /\ header_complete = [w \in Workers |-> FALSE]
    /\ NoRewrite
    /\ NoSend
    /\ AtAccept
    /\ NoList
    /\ NoOld

Next ==
    \E w \in Workers :
        \/ AcceptAndSpawn(w)
        \/ SpawnFails(w)
        \/ Admit(w)
        \/ \E r \in Requests : RecvHeaders(w, r)
        \/ \E got \in {0, 1}, sent \in BOOLEAN : RecvIncomplete(w, got, sent)
        \/ \E sent \in BOOLEAN : LookupHit(w, sent)
        \/ \E sent \in BOOLEAN : LookupMiss(w, sent)
        \/ ConnectOk(w)
        \/ \E at \in {"socket", "resolve", "connect"}, sent \in BOOLEAN :
               ConnectFails(w, at, sent)
        \/ SendRequestOk(w)
        \/ \E sent \in BOOLEAN : SendRequestFails(w, sent)
        \/ \E chunk \in RelayChunks : RelayChunk(w, chunk)
        \/ \E recved \in {0, -1} : RelayEnds(w, recved)
        \/ \E chunk \in RelayChunks, n \in 0 .. MaxResponse :
               RelaySendFails(w, chunk, n)
        \/ CloseClient(w)
        \/ Release(w)

Spec == Init /\ [][Next]_vars

(***************************************************************************)
(* Properties of the admission gate, checked under Spec                    *)
(***************************************************************************)
\* the worker is between the return of sem_wait and the sem_post of its guard
Admitted(w) ==
    pc[w] \in {"recv", "lookup", "connect", "send_request", "relay", "close",
               "release"}

RECURSIVE SumTokens(_)
SumTokens(ws) ==
    IF ws = {} THEN 0
    ELSE LET w == CHOOSE w \in ws : TRUE IN tokens[w] + SumTokens(ws \ {w})

\* C9: a worker holds exactly one permit from the return of sem_wait to the end
\* of thread_fn and none before or after, on every path; the permits held and
\* the free ones add up to MAX_CLIENTS, so the count never exceeds MAX_CLIENTS.
C9_OneReleasePerAcquire ==
    /\ \A w \in Workers :
           /\ tokens[w] \in {0, 1}
           /\ Admitted(w) => tokens[w] = 1
           /\ pc[w] \in {"none", "sem_wait", "done"} => tokens[w] = 0
    /\ seamaphore + SumTokens(Workers) = MAX_CLIENTS
    /\ seamaphore >= 0
    /\ seamaphore <= MAX_CLIENTS

\* two workers have returned, one that opened an upstream socket and one that
\* did not, and every permit is free again
C9_Witness ==
    /\ \A w \in Workers : pc[w] = "done"
    /\ \E w \in Workers : remote_sock[w] = "closed"
    /\ \E w \in Workers : remote_sock[w] = "none"
    /\ seamaphore = MAX_CLIENTS

\* C10: at most MAX_CLIENTS workers are admitted at any moment; a worker that
\* finds no permit stays in sem_wait, and only an admitted worker has read from
\* its client socket.
C10_AtMostMaxClientsAdmitted ==
    /\ [](Cardinality({w \in Workers : Admitted(w)}) <= MAX_CLIENTS)
    /\ [](\A w \in Workers :
             pc[w] = "sem_wait" => raw_req[w] = EmptyString /\ client_out[w] = << >>)
    /\ [][\A w \in Workers :
             /\ (pc[w] = "sem_wait" /\ seamaphore = 0) => pc'[w] = "sem_wait"
             /\ raw_req'[w] # raw_req[w] => tokens[w] = 1]_vars

\* MAX_CLIENTS workers are admitted, one of them in the relay, and a further
\* worker waits in sem_wait
C10_Witness ==
    /\ Cardinality({w \in Workers : Admitted(w)}) = MAX_CLIENTS
    /\ \E w \in Workers : pc[w] = "relay" /\ temp_cache_data[w] # EmptyString
    /\ \E w \in Workers : pc[w] = "sem_wait"
    /\ seamaphore = 0

(***************************************************************************)
(* Properties of the worker's paths, checked under Spec.  Every step of    *)
(* Spec is a step of one worker; the steps of worker w are those that      *)
(* change pc[w] or client_out[w].                                          *)
(***************************************************************************)
\* the value stored under key k
StoredValue(c, k) == Deref(c, Find(c, k)).data

\* worker w leaves the cache lookup of thread_fn in this step
LooksUp(w) == pc[w] = "lookup" /\ pc'[w] # "lookup"

\* C11: a worker that looks up request bytes R while the cache stores the relayed
\* response V under R takes the hit path: it writes V and nothing else to its
\* client (nothing arrives when the send fails), does not parse and opens no
\* upstream connection.
C11_StoredRequestIsServedFromCache ==
    [][\A w \in Workers :
          (LooksUp(w) /\ raw_req[w] \in Keys(cache))
          => /\ outcome'[w].path = "hit"
             /\ pc'[w] = "close"
             /\ remote_sock'[w] = "none"
             /\ outcome'[w].sent => client_out'[w] = StoredValue(cache, raw_req[w])
             /\ ~outcome'[w].sent => client_out'[w] = << >>]_vars

\* worker w leaves the relay loop of handle_request in this step
LeavesRelay(w) == pc[w] = "relay" /\ pc'[w] # "relay"

\* C12: the cache changes at the end of a relay only when the upstream read
\* returned 0; when the loop ends on an upstream read error no put is performed
\* and the cache stays as it was, so that no partial response is stored.
C12_NoPutAfterUpstreamError ==
    [][\A w \in Workers :
          /\ (LeavesRelay(w) /\ cache' # cache) => outcome'[w].path = "eof"
          /\ (LeavesRelay(w) /\ outcome'[w].path = "recv_error") => cache' = cache]_vars

\* C13: when the send of a relayed chunk to the client fails, the response in
\* progress is discarded: no put is performed and the cache stays as it was.
C13_NoPutAfterClientSendFailure ==
    [][\A w \in Workers :
          (LeavesRelay(w) /\ outcome'[w].path = "client_send_fails")
          => cache' = cache]_vars

(***************************************************************************)
(* SpecRecv: the reception of the request headers (thread_fn, lines        *)
(* 219-237 and 263-266), recv by recv.  Worker 1 has been admitted and     *)
(* reads from its client; what follows the reception of a complete header  *)
(* is the business of Spec.                                                *)
(***************************************************************************)
\* MAX_HEADER_SIZE of the source (64 KiB), scaled down
MAX_HEADER_SIZE == 6
\* MAX_BYTES of the source (4096), scaled down
MAX_BYTES == 3

\* the bytes a client sends: \r, \n and a letter
HeaderBytes == {13, 10, 71}

RECURSIVE Strings(_)
Strings(n) ==
    IF n = 0 THEN {<< >>}
    ELSE {<<b>> \o s : b \in HeaderBytes, s \in Strings(n - 1)}

\* what one recv(socket, buffer.data(), MAX_BYTES, 0) may deliver
RecvChunks == UNION {Strings(n) : n \in 1 .. MAX_BYTES}

\* s.find(t) != string::npos
Contains(s, t) ==
    \E i \in 1 .. Len(s) - Len(t) + 1 : SubSeq(s, i, i + Len(t) - 1) = t

RecvSteps ==
    UNCHANGED <<cache, cache_lock, seamaphore, it, entry_size, client_sock,
                remote_sock, tokens, seq_cache, seq_ret, recency, last_op,
                client_closes, remote_closes, RewriteVars, SendVars, MainVars, ListVars, OldVars>>

\* thread_fn, lines 225-236: recv delivers chunk; the whole chunk is appended to
\* raw_req, and the loop ends when raw_req holds the terminator
RecvChunk(w, chunk) ==
    /\ pc[w] = "recv"
    /\ total_bytes[w] < MAX_HEADER_SIZE
    /\ raw_req' = [raw_req EXCEPT ![w] = @ \o chunk]
    /\ total_bytes' = [total_bytes EXCEPT ![w] = @ + Len(chunk)]
    /\ IF Contains(raw_req[w] \o chunk, CRLFCRLF)
       THEN /\ header_complete' = [header_complete EXCEPT ![w] = TRUE]
            /\ pc' = [pc EXCEPT ![w] = "lookup"]
       ELSE UNCHANGED <<header_complete, pc>>
    /\ UNCHANGED <<temp_cache_data, client_out, outcome>>
    /\ RecvSteps

\* thread_fn, lines 225-227 and 263-266: recv returns recved, 0 when the peer has
\* closed or -1 for an error; the loop ends with header_complete false
RecvCloses(w, recved, sent) ==
    /\ pc[w] = "recv"
    /\ total_bytes[w] < MAX_HEADER_SIZE
    /\ client_out' = [client_out EXCEPT ![w] =
                         IF AnswersIncomplete(total_bytes[w])
                         THEN SendError(@, 400, sent) ELSE @]
    /\ ToClose(w)
    /\ Ends(w, IF recved = 0 THEN "peer_closed" ELSE "client_recv_error",
            ~AnswersIncomplete(total_bytes[w]) \/ sent)
    /\ UNCHANGED <<total_bytes, header_complete>>
    /\ RecvSteps

\* thread_fn, line 225 and lines 263-266: total_bytes has reached MAX_HEADER_SIZE,
\* the loop ends with header_complete false
RecvLimit(w, sent) ==
    /\ pc[w] = "recv"
    /\ ~(total_bytes[w] < MAX_HEADER_SIZE)
    /\ client_out' = [client_out EXCEPT ![w] =
                         IF AnswersIncomplete(total_bytes[w])
                         THEN SendError(@, 400, sent) ELSE @]
    /\ ToClose(w)
    /\ Ends(w, "too_long", ~AnswersIncomplete(total_bytes[w]) \/ sent)
    /\ UNCHANGED <<total_bytes, header_complete>>
    /\ RecvSteps

\* thread_fn at line 219 for worker 1, which holds a permit
InitRecv ==
    /\ cache = LRUCache(MAX_CACHE_SIZE)
    /\ cache_lock = NoOwner
    /\ seamaphore = MAX_CLIENTS - 1
    /\ pc = [w \in Workers |-> IF w = 1 THEN "recv" ELSE "none"]
    /\ raw_req = [w \in Workers |-> EmptyString]
    /\ temp_cache_data = [w \in Workers |-> EmptyString]
    /\ it = [w \in Workers |-> End]
    /\ entry_size = [w \in Workers |-> 0]
    /\ client_sock = [w \in Workers |-> IF w = 1 THEN "open" ELSE "none"]
    /\ remote_sock = [w \in Workers |-> "none"]
    /\ client_out = [w \in Workers |-> << >>]
    /\ tokens = [w \in Workers |-> IF w = 1 THEN 1 ELSE 0]
    /\ seq_cache = LRUCache(MAX_CACHE_SIZE)
    /\ seq_ret = [w \in Workers |-> EmptyString]
    /\ recency = << >>
    /\ last_op = NoOp
    /\ outcome = [w \in Workers |-> NoOutcome]
    /\ client_closes = [w \in Workers |-> << >>]
    /\ remote_closes = [w \in Workers |-> << >>]
    /\ total_bytes = [w \in Workers |-> 0]
    /\ header_complete = [w \in Workers |-> FALSE]
    /\ NoRewrite
    /\ NoSend
    /\ AtAccept
    /\ NoList
    /\ NoOld

NextRecv ==
    \E w \in Workers :
        \/ \E chunk \in RecvChunks : RecvChunk(w, chunk)
        \/ \E recved \in {0, -1}, sent \in BOOLEAN : RecvCloses(w, recved, sent)
        \/ \E sent \in BOOLEAN : RecvLimit(w, sent)
        \/ CloseClient(w)
        \/ Release(w)

SpecRecv == InitRecv /\ [][NextRecv]_vars

(***************************************************************************)
(* Properties of the header reception, checked under SpecRecv              *)
(***************************************************************************)
\* MAX_HEADER_SIZE bytes of r have been accepted and hold no terminator
LimitReached(r) ==
    /\ Len(r) >= MAX_HEADER_SIZE
    /\ ~Contains(SubSeq(r, 1, MAX_HEADER_SIZE), CRLFCRLF)

\* the terminator of r completes at or before byte MAX_HEADER_SIZE
CompleteInTime(r) ==
    \E n \in 1 .. MAX_HEADER_SIZE : n <= Len(r) /\ Contains(SubSeq(r, 1, n), CRLFCRLF)

\* worker w leaves the receive loop of thread_fn in this step
LeavesRecv(w) == pc[w] = "recv" /\ pc'[w] # "recv"

\* C14: the receive loop ends with the 400 for size exactly when MAX_HEADER_SIZE
\* bytes have been accepted without the terminator among them, and then the
\* worker goes to the close without lookup, parse or upstream connection; a
\* request whose terminator completes within the first MAX_HEADER_SIZE bytes goes
\* to the lookup.
C14_SizeLimitExact ==
    /\ [](\A w \in Workers : LimitReached(raw_req[w]) => pc[w] = "recv")
    /\ [](\A w \in Workers : CompleteInTime(raw_req[w]) => pc[w] = "lookup")
    /\ [][\A w \in Workers :
             /\ (LeavesRecv(w) /\ LimitReached(raw_req[w]))
                => /\ outcome'[w].path = "too_long"
                   /\ pc'[w] = "close"
                   /\ remote_sock'[w] = "none"
                   /\ cache' = cache
                   /\ client_out'[w] = IF outcome'[w].sent THEN <<400>> ELSE << >>
             /\ (LeavesRecv(w) /\ outcome'[w].path = "too_long")
                => LimitReached(raw_req[w])]_vars

\* C15: when recv returns 0 (the peer has closed) before the terminator is seen,
\* the worker writes the 400 reply if at least one byte had been received and
\* writes nothing if none had; in both cases it does no lookup and goes straight
\* to the close of the socket and the release of its permit.
C15_PeerCloseBeforeTerminator ==
    [][\A w \in Workers :
          /\ (LeavesRecv(w) /\ outcome'[w].path = "peer_closed")
             => /\ ~Contains(raw_req[w], CRLFCRLF)
                /\ pc'[w] = "close"
                /\ cache' = cache
                /\ remote_sock'[w] = "none"
                /\ total_bytes[w] > 0
                   => client_out'[w] = IF outcome'[w].sent THEN <<400>> ELSE << >>
                /\ total_bytes[w] = 0
                   => client_out'[w] = << >> /\ outcome'[w].sent
          /\ pc[w] = "close" => pc'[w] \in {"close", "release"}
          /\ pc[w] = "release" => pc'[w] \in {"release", "done"}]_vars

\* the peer closed after three bytes without terminator: the 400 has been written
\* and the worker is at the close of its socket
C15_Witness ==
    \E w \in Workers :
        /\ pc[w] = "close"
        /\ outcome[w].path = "peer_closed"
        /\ total_bytes[w] = 3
        /\ client_out[w] = <<400>>

(***************************************************************************)
(* Properties of the error replies, checked under Spec                     *)
(***************************************************************************)
\* the step changes the cache on behalf of worker w: the cache is changed by get
\* (line 240) and by put (line 195) only
ChangesCache(w) == cache' # cache /\ (LooksUp(w) \/ LeavesRelay(w))

\* the reply with status code has been written to the client of worker w
Written(w, code) == \E i \in DOMAIN client_out[w] : client_out[w][i] = code

\* C16: a complete request that parses with a method other than GET misses the
\* cache and is answered with exactly one reply, the 501 (nothing arrives when
\* the send fails); no upstream connection is opened, and no step of that worker
\* changes the cache.
C16_NotImplemented ==
    [][/\ \A w \in Workers :
              (LooksUp(w) /\ raw_req[w] = ReqPost)
              => /\ LRUGet(cache, raw_req[w]).ret = EmptyString
                 /\ outcome'[w].path = "not_get"
                 /\ pc'[w] = "close"
                 /\ client_out'[w] = IF outcome'[w].sent THEN <<501>> ELSE << >>
                 /\ remote_sock'[w] = "none"
                 /\ remote_closes'[w] = << >>
                 /\ cache' = cache
       /\ cache' # cache => \E w \in Workers : ChangesCache(w) /\ raw_req[w] # ReqPost
      ]_vars

\* a POST request has been answered 501 while the cache holds an entry
C16_Witness ==
    \E w \in Workers :
        /\ pc[w] = "close"
        /\ outcome[w].path = "not_get"
        /\ client_out[w] = <<501>>
        /\ remote_sock[w] = "none"
        /\ cache.lru_list # << >>

\* C17: a complete request that misses the cache and fails to parse is answered
\* with the 400 reply (nothing arrives when the send fails); no upstream
\* connection is opened, and no step of that worker changes the cache.
C17_BadRequest ==
    [][/\ \A w \in Workers :
              (LooksUp(w) /\ raw_req[w] = ReqBad)
              => /\ LRUGet(cache, raw_req[w]).ret = EmptyString
                 /\ outcome'[w].path = "parse_fails"
                 /\ pc'[w] = "close"
                 /\ client_out'[w] = IF outcome'[w].sent THEN <<400>> ELSE << >>
                 /\ remote_sock'[w] = "none"
                 /\ remote_closes'[w] = << >>
                 /\ cache' = cache
       /\ cache' # cache => \E w \in Workers : ChangesCache(w) /\ raw_req[w] # ReqBad
      ]_vars

\* a request that does not parse has been answered 400 while the cache holds an
\* entry
C17_Witness ==
    \E w \in Workers :
        /\ pc[w] = "close"
        /\ outcome[w].path = "parse_fails"
        /\ client_out[w] = <<400>>
        /\ remote_sock[w] = "none"
        /\ cache.lru_list # << >>

\* worker w leaves handle_request with -1 in this step: connectRemoteServer or the
\* send of the request has failed
UpstreamFails(w) == pc[w] \in {"connect", "send_request"} /\ pc'[w] = "close"

\* C18: the 500 reply is written exactly when the upstream connect or the send of
\* the request failed (nothing arrives when the send of the reply fails); that
\* step performs no put and leaves the cache as it is; and the 500 is written
\* only to a client that has been sent nothing before.
C18_InternalErrorIffUpstreamFailure ==
    /\ [](\A w \in Workers :
             Written(w, 500)
             => /\ client_out[w] = <<500>>
                /\ outcome[w].path \in {"connect_fails", "send_request_fails"})
    /\ [][\A w \in Workers :
             /\ UpstreamFails(w)
                => /\ outcome'[w].path \in {"connect_fails", "send_request_fails"}
                   /\ client_out'[w] = IF outcome'[w].sent THEN <<500>> ELSE << >>
                   /\ cache' = cache
                   /\ remote_sock'[w] # "open"
             /\ (client_out'[w] # client_out[w] /\ client_out'[w] # << >>
                   /\ client_out'[w][Len(client_out'[w])] = 500)
                => UpstreamFails(w) /\ client_out[w] = << >>]_vars

\* a request could not be sent upstream and has been answered 500 while the cache
\* holds an entry
C18_Witness ==
    \E w \in Workers :
        /\ pc[w] = "close"
        /\ outcome[w].path = "send_request_fails"
        /\ client_out[w] = <<500>>
        /\ remote_sock[w] = "closed"
        /\ cache.lru_list # << >>

(***************************************************************************)
(* Properties of the sockets, checked under Spec                           *)
(***************************************************************************)
\* C19: when a worker has returned, on whichever path, its client socket is
\* closed and its upstream socket, if it opened one, is closed; the upstream
\* socket is closed already when handle_request has returned, and a descriptor
\* that connectRemoteServer opened is closed when the connect has failed.
C19_NoSocketOpenAfterReturn ==
    \A w \in Workers :
        /\ pc[w] = "done"
           => client_sock[w] = "closed" /\ remote_sock[w] \in {"none", "closed"}
        /\ pc[w] \in {"close", "release"} => remote_sock[w] \in {"none", "closed"}
        /\ remote_sock[w] = "open" => pc[w] \in {"send_request", "relay"}

\* one worker has returned after a relay, with both its sockets closed, and
\* another is back from a failed connect whose descriptor has been closed
C19_Witness ==
    \E v, w \in Workers :
        /\ pc[v] = "done"
        /\ client_sock[v] = "closed"
        /\ remote_sock[v] = "closed"
        /\ pc[w] = "close"
        /\ outcome[w].path = "connect_fails"
        /\ remote_sock[w] = "closed"

\* C20: a client socket is closed exactly once, by the worker it was handed to or,
\* when no thread could be created for it, by main, and never by both; an
\* upstream socket is closed exactly once, by the worker that opened it.
C20_ClosedExactlyOnce ==
    \A w \in Workers :
        /\ Len(client_closes[w]) <= 1
        /\ Len(remote_closes[w]) <= 1
        /\ client_sock[w] = "open" => client_closes[w] = << >> /\ ~Free(w)
        /\ client_sock[w] = "closed" <=> Len(client_closes[w]) = 1
        /\ pc[w] \in {"release", "done"} => client_closes[w] = <<"worker">>
        /\ pc[w] = "no_thread" <=> client_closes[w] = <<"main">>
        /\ pc[w] = "no_thread" => tokens[w] = 0 /\ remote_sock[w] = "none"
        /\ remote_sock[w] \in {"none", "open"} => remote_closes[w] = << >>
        /\ remote_sock[w] = "closed" <=> remote_closes[w] = <<"worker">>
        /\ pc[w] \in {"close", "release", "done"} /\ remote_sock[w] # "none"
           => remote_closes[w] = <<"worker">>

\* main has closed a socket for which no thread could be created, and a worker has
\* returned after closing its client socket and its upstream socket
C20_Witness ==
    \E v, w \in Workers :
        /\ pc[v] = "no_thread"
        /\ client_closes[v] = <<"main">>
        /\ pc[w] = "done"
        /\ client_closes[w] = <<"worker">>
        /\ remote_closes[w] = <<"worker">>

(***************************************************************************)
(* SpecRewrite: handle_request builds the upstream request (lines          *)
(* 154-170) from a parsed request.  Strings are sequences of character     *)
(* codes.                                                                  *)
(***************************************************************************)
\* most headers of a parsed request (headersused)
MaxHeaders == 2

CRLF == <<13, 10>>
ColonSpace == <<58, 32>>
Space == <<32>>

\* "host" and "connection", the literals of line 164
LowerHost == <<104, 111, 115, 116>>
LowerConnection == <<99, 111, 110, 110, 101, 99, 116, 105, 111, 110>>
\* "Host" and "Connection: close", the literals of lines 169 and 170
KeyHost == <<72, 111, 115, 116>>
KeyConnection == <<67, 111, 110, 110, 101, 99, 116, 105, 111, 110>>
Close == <<99, 108, 111, 115, 101>>

\* the header keys of the parsed requests: "Host", "hOST", "Connection",
\* "connection", "Accept" and "Hosts"
HeaderKeys ==
    {KeyHost, <<104, 79, 83, 84>>, KeyConnection, LowerConnection,
     <<65, 99, 99, 101, 112, 116>>, <<72, 111, 115, 116, 115>>}
\* their values: "1" and "2"
HeaderValues == {<<49>>, <<50>>}
ParsedHeaders == [key : HeaderKeys, value : HeaderValues]
HeaderLists == UNION {[1 .. n -> ParsedHeaders] : n \in 0 .. MaxHeaders}

\* the requests ParsedRequest_parse hands to handle_request: GET / HTTP/1.0 for
\* host "a", with every list of headers
ParsedRequests ==
    [method : {<<71, 69, 84>>}, path : {<<47>>},
     version : {<<72, 84, 84, 80, 47, 49, 46, 48>>}, host : {<<97>>},
     port : {NoPort}, headers : HeaderLists]

\* ::tolower on one character
ToLower(c) == IF c \in 65 .. 90 THEN c + 32 ELSE c

\* transform(key_lower.begin(), key_lower.end(), key_lower.begin(), ::tolower)
Lower(key) == [i \in DOMAIN key |-> ToLower(key[i])]

\* a faulty Skips: the key is compared as it is written
SkipsExactCase(key) == key = KeyHost \/ key = KeyConnection

\* line 164: the header is left out
Skips(key) == Lower(key) = LowerHost \/ Lower(key) = LowerConnection

\* line 166: key + ": " + value + "\r\n"
HeaderLine(key, value) == key \o ColonSpace \o value \o CRLF

\* lines 156-167: the loop over request->headers, appending to str
RECURSIVE CopyHeaders(_, _)
CopyHeaders(hs, str) ==
    IF hs = << >> THEN str
    ELSE CopyHeaders(Tail(hs),
                     IF Skips(Head(hs).key)
                     THEN str
                     ELSE str \o HeaderLine(Head(hs).key, Head(hs).value))

\* lines 154-170: the value of req_str at line 172
RequestString(r) ==
    CopyHeaders(r.headers, r.method \o Space \o r.path \o Space \o r.version \o CRLF)
        \o HeaderLine(KeyHost, r.host)
        \o HeaderLine(KeyConnection, Close) \o CRLF

RewriteSteps ==
    UNCHANGED <<cache, cache_lock, seamaphore, raw_req, temp_cache_data, it,
                entry_size, client_sock, remote_sock, client_out, tokens, seq_cache,
                seq_ret, recency, last_op, outcome, client_closes, remote_closes,
                total_bytes, header_complete, SendVars, MainVars, ListVars, OldVars>>

\* isspace, for the characters strtol skips
IsSpace(c) == c = 32 \/ c \in 9 .. 13

RECURSIVE SkipSpaces(_)
SkipSpaces(s) == IF s # << >> /\ IsSpace(Head(s)) THEN SkipSpaces(Tail(s)) ELSE s

\* the value of the digits s starts with, after acc
RECURSIVE LeadingDigits(_, _)
LeadingDigits(s, acc) ==
    IF s # << >> /\ Head(s) \in 48 .. 57
    THEN LeadingDigits(Tail(s), acc * 10 + (Head(s) - 48))
    ELSE acc

\* atoi(s): white space is skipped, a sign is taken, and the digits that follow
\* are the value, up to the first character that is no digit; no digits give 0.
\* The strings here are too short for a value outside int.
Atoi(s) ==
    LET t == SkipSpaces(s)
    IN  IF t # << >> /\ Head(t) = 45 THEN 0 - LeadingDigits(Tail(t), 0)
        ELSE IF t # << >> /\ Head(t) = 43 THEN LeadingDigits(Tail(t), 0)
        ELSE LeadingDigits(t, 0)

\* lines 173-174: the value of server_port at line 175
ServerPort(r) == IF r.port # NoPort THEN Atoi(r.port) ELSE 80

\* handle_request, lines 154-174; connectRemoteServer is called next
BuildRequest(w) ==
    /\ pc[w] = "handle_request"
    /\ req_str' = RequestString(request)
    /\ server_port' = ServerPort(request)
    /\ pc' = [pc EXCEPT ![w] = "connect"]
    /\ UNCHANGED request
    /\ RewriteSteps

\* thread_fn at line 254 for worker 1: the request has missed the cache and has
\* been parsed
InitRewrite ==
    /\ cache = LRUCache(MAX_CACHE_SIZE)
    /\ cache_lock = NoOwner
    /\ seamaphore = MAX_CLIENTS - 1
    /\ pc = [w \in Workers |-> IF w = 1 THEN "handle_request" ELSE "none"]
    /\ raw_req = [w \in Workers |-> IF w = 1 THEN ReqGetA ELSE EmptyString]
    /\ temp_cache_data = [w \in Workers |-> EmptyString]
    /\ it = [w \in Workers |-> End]
    /\ entry_size = [w \in Workers |-> 0]
    /\ client_sock = [w \in Workers |-> IF w = 1 THEN "open" ELSE "none"]
    /\ remote_sock = [w \in Workers |-> "none"]
    /\ client_out = [w \in Workers |-> << >>]
    /\ tokens = [w \in Workers |-> IF w = 1 THEN 1 ELSE 0]
    /\ seq_cache = LRUCache(MAX_CACHE_SIZE)
    /\ seq_ret = [w \in Workers |-> EmptyString]
    /\ recency = << >>
    /\ last_op = NoOp
    /\ outcome = [w \in Workers |-> NoOutcome]
    /\ client_closes = [w \in Workers |-> << >>]
    /\ remote_closes = [w \in Workers |-> << >>]
    /\ total_bytes = [w \in Workers |-> 0]
    /\ header_complete = [w \in Workers |-> FALSE]
    /\ request \in ParsedRequests
    /\ req_str = << >>
    /\ server_port = 80
    /\ NoSend
    /\ AtAccept
    /\ NoList
    /\ NoOld

NextRewrite == \E w \in Workers : BuildRequest(w)

SpecRewrite == InitRewrite /\ [][NextRewrite]_vars

(***************************************************************************)
(* Properties of the rewriting, checked under SpecRewrite                  *)
(***************************************************************************)
\* the place of the first "\r\n" of s, 0 if there is none
FirstCRLF(s) ==
    IF \E i \in 1 .. Len(s) - 1 : s[i] = 13 /\ s[i + 1] = 10
    THEN CHOOSE i \in 1 .. Len(s) - 1 :
             /\ s[i] = 13 /\ s[i + 1] = 10
             /\ \A j \in 1 .. i - 1 : ~(s[j] = 13 /\ s[j + 1] = 10)
    ELSE 0

\* the lines of s, each without its "\r\n"; what follows the last "\r\n" is the
\* last element
RECURSIVE LinesOf(_)
LinesOf(s) ==
    IF FirstCRLF(s) = 0 THEN <<s>>
    ELSE <<SubSeq(s, 1, FirstCRLF(s) - 1)>>
             \o LinesOf(SubSeq(s, FirstCRLF(s) + 2, Len(s)))

\* a and b are the same but for the case of their letters
SameButCase(a, b) ==
    /\ Len(a) = Len(b)
    /\ \A i \in DOMAIN a :
           \/ a[i] = b[i]
           \/ a[i] \in 65 .. 90 /\ b[i] = a[i] + 32
           \/ a[i] \in 97 .. 122 /\ b[i] = a[i] - 32

IsHostOrConnection(key) == SameButCase(key, KeyHost) \/ SameButCase(key, KeyConnection)

\* the key of a header line: what stands before its first ": "
KeyOf(line) ==
    IF \E i \in 1 .. Len(line) - 1 : line[i] = 58 /\ line[i + 1] = 32
    THEN SubSeq(line, 1, (CHOOSE i \in 1 .. Len(line) - 1 :
                              /\ line[i] = 58 /\ line[i + 1] = 32
                              /\ \A j \in 1 .. i - 1 : line[j] # 58) - 1)
    ELSE line

\* the original headers that are to be forwarded, as the lines they make
RECURSIVE Forwarded(_)
Forwarded(hs) ==
    IF hs = << >> THEN << >>
    ELSE (IF IsHostOrConnection(Head(hs).key) THEN << >>
          ELSE <<Head(hs).key \o ColonSpace \o Head(hs).value>>)
         \o Forwarded(Tail(hs))

\* C21: the upstream request is the request line, then every original header
\* whose key is not Host or Connection in any letter case, once each and in the
\* original order, then one Host line with the parsed host, one Connection: close
\* line and the blank line; no other line of it has the key Host or Connection.
C21_RewrittenRequest ==
    \A w \in Workers :
        (pc[w] = "connect" /\ req_str # << >>)
        => LET lines == LinesOf(req_str)
               n == Len(lines)
           IN  /\ lines = <<request.method \o Space \o request.path \o Space
                               \o request.version>>
                          \o Forwarded(request.headers)
                          \o <<KeyHost \o ColonSpace \o request.host,
                               KeyConnection \o ColonSpace \o Close, << >>, << >>>>
               /\ \A i \in 2 .. n - 4 : ~IsHostOrConnection(KeyOf(lines[i]))
               /\ KeyOf(lines[n - 3]) = KeyHost
               /\ KeyOf(lines[n - 2]) = KeyConnection

\* a request with the headers hOST and Accept has been rewritten
C21_Witness ==
    /\ pc[1] = "connect"
    /\ Len(request.headers) = 2
    /\ request.headers[1].key = <<104, 79, 83, 84>>
    /\ request.headers[2].key = <<65, 99, 99, 101, 112, 116>>
    /\ Len(LinesOf(req_str)) = 6

(***************************************************************************)
(* SpecSend: the relay loop of handle_request (lines 189-192) with         *)
(* send_all (lines 92-103) taken one send at a time                        *)
(***************************************************************************)
\* most bytes of an upstream response
MaxUpstream == 4

\* the responses the upstream server may send before it closes: the strings of
\* "A" and "B" up to MaxUpstream bytes
UpstreamResponses == UNION {[1 .. n -> {65, 66}] : n \in 0 .. MaxUpstream}

Min(a, b) == IF a < b THEN a ELSE b

\* a faulty Slice: every send starts at the first byte of the buffer
SliceFromStart(buf, offset, n) == SubSeq(buf, 1, n)

\* line 94: the n bytes at buffer + total_sent
Slice(buf, offset, n) == SubSeq(buf, offset + 1, offset + n)

\* a faulty SendAllDone: the loop is left after the first send that took bytes
SendAllDoneEarly(total, length) == total > 0

\* line 94: the loop test total_sent < length fails
SendAllDone(total, length) == ~(total < length)

SendSteps ==
    UNCHANGED <<cache_lock, seamaphore, it, entry_size, client_sock, tokens,
                seq_cache, seq_ret, recency, last_op, client_closes, total_bytes,
                header_complete, RewriteVars, MainVars,
                ListVars, OldVars>>

\* line 189: recv on the upstream socket delivers n bytes, at most MAX_BYTES;
\* line 190 calls send_all, which sets total_sent to 0 (line 93)
RecvUpstream(w, n) ==
    /\ pc[w] = "relay_recv"
    /\ n \in 1 .. Min(MAX_BYTES, Len(upstream))
    /\ buffer' = SubSeq(upstream, 1, n)
    /\ upstream' = SubSeq(upstream, n + 1, Len(upstream))
    /\ upstream_read' = upstream_read \o SubSeq(upstream, 1, n)
    /\ total_sent' = 0
    /\ handed' = << >>
    /\ pc' = [pc EXCEPT ![w] = "send_all"]
    /\ UNCHANGED <<cache, raw_req, temp_cache_data, remote_sock, client_out, outcome,
                   remote_closes, send_ret, errno>>
    /\ SendSteps

\* line 189: recv returns recved, 0 when the server has sent everything and
\* closed, -1 for an error; the loop ends
RecvUpstreamEnds(w, recved) ==
    /\ pc[w] = "relay_recv"
    /\ recved = 0 => upstream = << >>
    /\ pc' = [pc EXCEPT ![w] = "after_relay"]
    /\ Ends(w, IF recved = 0 THEN "eof" ELSE "recv_error", TRUE)
    /\ UNCHANGED <<cache, raw_req, temp_cache_data, remote_sock, client_out,
                   remote_closes, SendVars>>
    /\ SendSteps

\* a faulty Send: the bytes are appended to temp_cache_data as send takes them
SendAppendsAsSent(w, n) ==
    /\ pc[w] = "send_all"
    /\ n \in 1 .. Len(buffer) - total_sent
    /\ send_ret' = n
    /\ client_out' = [client_out EXCEPT ![w] = @ \o Slice(buffer, total_sent, n)]
    /\ handed' = handed \o Slice(buffer, total_sent, n)
    /\ total_sent' = total_sent + n
    /\ temp_cache_data' = [temp_cache_data EXCEPT ![w] = @ \o Slice(buffer, total_sent, n)]
    /\ pc' = [pc EXCEPT ![w] = IF SendAllDone(total_sent + n, Len(buffer))
                                THEN "relay_recv" ELSE "send_all"]
    /\ UNCHANGED <<cache, raw_req, remote_sock, outcome, remote_closes, upstream,
                   upstream_read, buffer, errno>>
    /\ SendSteps

\* lines 94-100: send takes n of the bytes that are left; when none is left
\* send_all returns 0 (line 102) and line 191 appends the buffer
Send(w, n) ==
    /\ pc[w] = "send_all"
    /\ n \in 1 .. Len(buffer) - total_sent
    /\ send_ret' = n
    /\ client_out' = [client_out EXCEPT ![w] = @ \o Slice(buffer, total_sent, n)]
    /\ handed' = handed \o Slice(buffer, total_sent, n)
    /\ total_sent' = total_sent + n
    /\ IF SendAllDone(total_sent + n, Len(buffer))
       THEN /\ temp_cache_data' = [temp_cache_data EXCEPT ![w] = @ \o buffer]
            /\ pc' = [pc EXCEPT ![w] = "relay_recv"]
       ELSE UNCHANGED <<temp_cache_data, pc>>
    /\ UNCHANGED <<cache, raw_req, remote_sock, outcome, remote_closes, upstream,
                   upstream_read, buffer, errno>>
    /\ SendSteps

\* lines 94-97: send is interrupted; the loop goes on with the same total_sent
SendInterrupted(w) ==
    /\ pc[w] = "send_all"
    /\ send_ret' = -1
    /\ errno' = "EINTR"
    /\ UNCHANGED <<cache, pc, raw_req, temp_cache_data, remote_sock, client_out,
                   outcome, remote_closes, upstream, upstream_read, buffer,
                   total_sent, handed>>
    /\ SendSteps

\* lines 94-98: send fails with another error, send_all returns -1 and line 190
\* leaves the loop
SendFails(w) ==
    /\ pc[w] = "send_all"
    /\ send_ret' = -1
    /\ errno' = "EPIPE"
    /\ pc' = [pc EXCEPT ![w] = "after_relay"]
    /\ Ends(w, "client_send_fails", FALSE)
    /\ UNCHANGED <<cache, raw_req, temp_cache_data, remote_sock, client_out,
                   remote_closes, upstream, upstream_read, buffer, total_sent,
                   handed>>
    /\ SendSteps

\* lines 195-200
FinishRelay(w) ==
    /\ pc[w] = "after_relay"
    /\ AfterRelay(w)
    /\ UNCHANGED <<seamaphore, client_sock, client_out, tokens, outcome,
                   client_closes>>
    /\ CacheSteps

\* handle_request at line 189 for worker 1: the request has been sent upstream,
\* and the server is about to send one of UpstreamResponses
InitSend ==
    /\ cache = LRUCache(MAX_CACHE_SIZE)
    /\ cache_lock = NoOwner
    /\ seamaphore = MAX_CLIENTS - 1
    /\ pc = [w \in Workers |-> IF w = 1 THEN "relay_recv" ELSE "none"]
    /\ raw_req = [w \in Workers |-> IF w = 1 THEN ReqGetA ELSE EmptyString]
    /\ temp_cache_data = [w \in Workers |-> EmptyString]
    /\ it = [w \in Workers |-> End]
    /\ entry_size = [w \in Workers |-> 0]
    /\ client_sock = [w \in Workers |-> IF w = 1 THEN "open" ELSE "none"]
    /\ remote_sock = [w \in Workers |-> IF w = 1 THEN "open" ELSE "none"]
    /\ client_out = [w \in Workers |-> << >>]
    /\ tokens = [w \in Workers |-> IF w = 1 THEN 1 ELSE 0]
    /\ seq_cache = LRUCache(MAX_CACHE_SIZE)
    /\ seq_ret = [w \in Workers |-> EmptyString]
    /\ recency = << >>
    /\ last_op = NoOp
    /\ outcome = [w \in Workers |-> NoOutcome]
    /\ client_closes = [w \in Workers |-> << >>]
    /\ remote_closes = [w \in Workers |-> << >>]
    /\ total_bytes = [w \in Workers |-> 0]
    /\ header_complete = [w \in Workers |-> FALSE]
    /\ NoRewrite
    /\ upstream \in UpstreamResponses
    /\ upstream_read = << >>
    /\ buffer = << >>
    /\ total_sent = 0
    /\ handed = << >>
    /\ send_ret = 0
    /\ errno = "none"
    /\ AtAccept
    /\ NoList
    /\ NoOld

NextSend ==
    \E w \in Workers :
        \/ \E n \in 1 .. MAX_BYTES : RecvUpstream(w, n)
        \/ \E recved \in {0, -1} : RecvUpstreamEnds(w, recved)
        \/ \E n \in 1 .. MAX_BYTES : Send(w, n)
        \/ SendInterrupted(w)
        \/ SendFails(w)
        \/ FinishRelay(w)
        \/ CloseClient(w)
        \/ Release(w)

SpecSend == InitSend /\ [][NextSend]_vars

\* send is not interrupted for ever: a send that takes bytes or fails for good
\* comes in the end
SpecSendFair ==
    SpecSend /\ \A w \in Workers : WF_vars((\E n \in 1 .. MAX_BYTES : Send(w, n)) \/ SendFails(w))

(***************************************************************************)
(* Properties of the relay loop and of send_all, checked under SpecSend    *)
(* and SpecSendFair                                                        *)
(***************************************************************************)
\* worker w is in the relay loop, or has left it and not yet closed its client
InRelay(w) == pc[w] \in {"relay_recv", "send_all", "after_relay", "close"}

\* the bytes of the buffer that the send_all under way has not handed to send
Unsent == Len(buffer) - total_sent

\* C22: what the client has been sent is what recv has read from upstream, byte
\* for byte and in the same order: all of it at the head of the loop and when
\* the loop stops at the end of the stream or at an upstream error, and all of
\* it but the bytes the failed send_all did not hand over when a send to the
\* client fails.
C22_RelayedBytes ==
    \A w \in Workers :
        InRelay(w)
        => /\ pc[w] = "relay_recv" => client_out[w] = upstream_read
           /\ outcome[w].path \in {"eof", "recv_error"} => client_out[w] = upstream_read
           /\ (pc[w] = "send_all" \/ outcome[w].path = "client_send_fails")
              => /\ Unsent \in 0 .. Len(upstream_read)
                 /\ client_out[w] = SubSeq(upstream_read, 1, Len(upstream_read) - Unsent)

\* four bytes have been relayed in two reads, the first byte of the second read
\* in a send of its own, and the stream has ended
C22_Witness ==
    /\ pc[1] = "after_relay"
    /\ outcome[1].path = "eof"
    /\ Len(upstream_read) = 4
    /\ Len(buffer) = 2
    /\ send_ret = 1
    /\ client_out[1] = upstream_read
    /\ upstream_read[1] # upstream_read[2]

\* C23: send_all returns 0 only when every byte of the buffer has been handed to
\* send once and in order, whatever the sizes of the sends; an interrupted send
\* leaves the offset and the bytes handed over as they are and send_all goes on;
\* any other error of send ends send_all at once with -1; and send_all ends
\* when send is not interrupted for ever.
C23_SendAll ==
    /\ [](\A w \in Workers :
             pc[w] = "send_all" => handed = SubSeq(buffer, 1, total_sent))
    /\ [][\A w \in Workers :
             pc[w] = "send_all"
             => /\ pc'[w] = "relay_recv"
                   => /\ handed' = buffer
                      /\ total_sent' = Len(buffer)
                      /\ client_out'[w] = client_out[w] \o SubSeq(buffer, total_sent + 1, Len(buffer))
                /\ (send_ret' = -1 /\ errno' = "EINTR")
                   => /\ pc'[w] = "send_all"
                      /\ total_sent' = total_sent
                      /\ handed' = handed
                      /\ client_out' = client_out
                /\ (send_ret' = -1 /\ errno' # "EINTR")
                   => /\ pc'[w] = "after_relay"
                      /\ outcome'[w].path = "client_send_fails"
                      /\ handed' = handed
                      /\ client_out' = client_out]_vars
    /\ \A w \in Workers : (pc[w] = "send_all") ~> (pc[w] # "send_all")

\* send_all has returned 0 for a buffer of three bytes after an interrupted send
\* and a last send of one byte
C23_Witness ==
    /\ pc[1] = "relay_recv"
    /\ Len(buffer) = 3
    /\ handed = buffer
    /\ send_ret = 1
    /\ errno = "EINTR"

\* C27: when a send to the client has failed in the relay, the worker has read
\* the upstream response to its end before put is called, and the value put
\* stores is the whole response.
C27_ReadsToEofAfterClientFailure ==
    \A w \in Workers :
        (pc[w] = "close" /\ outcome[w].path = "client_send_fails")
        => /\ upstream = << >>
           /\ ReqGetA \in Keys(cache)
              => StoredValue(cache, ReqGetA) = upstream_read

(***************************************************************************)
(* SpecAccept: Spec with the accept of line 314 failing as well            *)
(***************************************************************************)
\* errno of a failed accept: a signal, or no descriptor left
AcceptErrors == {"EINTR", "EMFILE"}

\* a faulty AfterAcceptFailure: main gives up on an error that is no signal
AfterAcceptFailureExits(e) == IF e = "EINTR" THEN "accept" ELSE "exited"

\* lines 316-318: continue, both for EINTR and, after perror, for any other error
AfterAcceptFailure(e) == "accept"

\* main, lines 314-319: accept returns -1 with errno e
AcceptFails(e) ==
    /\ main_pc = "accept"
    /\ main_errno' = e
    /\ main_pc' = AfterAcceptFailure(e)
    /\ UNCHANGED <<cache, cache_lock, seamaphore, pc, raw_req, temp_cache_data, it,
                   entry_size, client_sock, remote_sock, client_out, tokens,
                   seq_cache, seq_ret, recency, last_op, outcome, client_closes,
                   remote_closes, total_bytes, header_complete, RewriteVars,
                   SendVars, ListVars, OldVars>>

NextAccept ==
    \/ Next
    \/ \E e \in AcceptErrors : AcceptFails(e)

SpecAccept == Init /\ [][NextAccept]_vars

\* thread_fn of worker w ends the connection on a failure
FailsInWorker(w) ==
    /\ outcome'[w] # outcome[w]
    /\ outcome'[w].path \in {"incomplete", "parse_fails", "not_get", "connect_fails",
                             "send_request_fails", "recv_error", "client_send_fails"}

\* C24: main never leaves its accept loop: after an interrupted accept, a failed
\* accept and a failed pthread_create it is at accept again; a socket whose
\* pthread_create failed has been closed by main, once, and no thread reads it,
\* writes to it or takes a permit for it; and a step of a worker, its failures
\* included, leaves the state of main as it is.
C24_AcceptLoopSurvives ==
    /\ [](main_pc = "accept")
    /\ [](\A w \in Workers :
             pc[w] = "no_thread"
             => /\ client_sock[w] = "closed"
                /\ client_closes[w] = <<"main">>
                /\ tokens[w] = 0
                /\ raw_req[w] = EmptyString
                /\ client_out[w] = << >>
                /\ remote_sock[w] = "none")
    /\ [][/\ main_errno' # main_errno => main_pc' = "accept" /\ pc' = pc
          /\ \A w \in Workers :
                 /\ pc[w] = "no_thread" => pc'[w] \in {"no_thread", "sem_wait"}
                 /\ (pc'[w] = "no_thread" /\ pc[w] # "no_thread") => main_pc' = "accept"
                 /\ (FailsInWorker(w) \/ (~Free(w) /\ pc'[w] # pc[w]))
                    => UNCHANGED MainVars]_vars

\* accept has failed for want of descriptors, the pthread_create of one
\* connection has failed, and the worker of another has failed to connect
C24_Witness ==
    /\ main_pc = "accept"
    /\ main_errno = "EMFILE"
    /\ \E w, v \in Workers :
           /\ pc[w] = "no_thread"
           /\ client_closes[w] = <<"main">>
           /\ outcome[v].path = "connect_fails"

(***************************************************************************)
(* SpecList: the cache of proxy_server_with_cache.c, add_cache_element     *)
(* (lines 991-1069), remove_cache_element (887-958) and find (797-886),    *)
(* with sizes scaled down                                                  *)
(***************************************************************************)
\* MAX_SIZE (line 60) and MAX_ELEMENT_SIZE (line 62), scaled down
MAX_SIZE == 8
MAX_ELEMENT_SIZE == 4
\* sizeof(cache_element), scaled down
SizeofCacheElement == 1
\* the latest time of the clock
MaxTime == 2

\* the urls of the calls, by their characters, and the sizes of the responses
ListUrls == {<<97>>, <<98>>}
ResponseSizes == 0 .. 2

\* line 1001: response_data_size + 1 + strlen(cache_url_key) + sizeof(cache_element)
ElementSize(size, url) == size + 1 + Len(url) + SizeofCacheElement

\* lines 906-916: the place in the list of the element remove_cache_element
\* takes out: the first of those with the least lru_time_track
LruIndex(list) ==
    CHOOSE i \in 1 .. Len(list) :
        /\ \A j \in 1 .. Len(list) : list[i].lru_time_track <= list[j].lru_time_track
        /\ \A j \in 1 .. i - 1 : list[j].lru_time_track > list[i].lru_time_track

\* lines 921-932: the list without its element at place i
Unlink(list, i) == SubSeq(list, 1, i - 1) \o SubSeq(list, i + 1, Len(list))

\* line 937: the size the element at place i gives back
Footprint(e) == e.len + SizeofCacheElement + Len(e.url) + 1

\* pthread_mutex_unlock by thread w
MutexUnlock(mutex, w) == IF mutex = w THEN NoOwner ELSE mutex

ListSteps ==
    UNCHANGED <<cache, cache_lock, seamaphore, raw_req, temp_cache_data, it,
                entry_size, client_sock, remote_sock, client_out, tokens, seq_cache,
                seq_ret, recency, last_op, outcome, client_closes, remote_closes,
                total_bytes, header_complete, RewriteVars, SendVars, MainVars,
                OldVars>>

\* the clock goes on
Tick ==
    /\ now < MaxTime
    /\ now' = now + 1
    /\ UNCHANGED <<pc, cache_head_pointer, total_cache_size_bytes, cache_mutex_lock,
                   new_element_total_size, add_ret>>
    /\ ListSteps

\* find, lines 797-886: under the mutex, the first element with the url gets
\* the time of the call
FindUrl(w, url) ==
    /\ pc[w] = "idle"
    /\ cache_mutex_lock = NoOwner
    /\ cache_head_pointer' =
           [i \in DOMAIN cache_head_pointer |->
               IF /\ cache_head_pointer[i].url = url
                  /\ \A j \in 1 .. i - 1 : cache_head_pointer[j].url # url
               THEN [cache_head_pointer[i] EXCEPT !.lru_time_track = now]
               ELSE cache_head_pointer[i]]
    /\ UNCHANGED <<pc, total_cache_size_bytes, cache_mutex_lock,
                   new_element_total_size, add_ret, now>>
    /\ ListSteps

\* add_cache_element, lines 995-1001: the mutex is taken and the size computed
AddLock(w, size, url) ==
    /\ pc[w] = "idle"
    /\ cache_mutex_lock = NoOwner
    /\ cache_mutex_lock' = w
    /\ new_element_total_size' =
           [new_element_total_size EXCEPT ![w] = ElementSize(size, url)]
    /\ pc' = [pc EXCEPT ![w] = "add_check"]
    /\ raw_req' = [raw_req EXCEPT ![w] = url]
    /\ entry_size' = [entry_size EXCEPT ![w] = size]
    /\ UNCHANGED <<cache, cache_lock, seamaphore, temp_cache_data, it, client_sock,
                   remote_sock, client_out, tokens, seq_cache, seq_ret, recency,
                   last_op, outcome, client_closes, remote_closes, total_bytes,
                   header_complete, RewriteVars, SendVars, MainVars, OldVars>>
    /\ UNCHANGED <<cache_head_pointer, total_cache_size_bytes, add_ret, now>>

\* lines 1006-1016: the element is too large, the mutex is released, 0 is returned
AddTooLarge(w) ==
    /\ pc[w] = "add_check"
    /\ new_element_total_size[w] > MAX_ELEMENT_SIZE
    /\ cache_mutex_lock' = MutexUnlock(cache_mutex_lock, w)
    /\ add_ret' = [add_ret EXCEPT ![w] = 0]
    /\ pc' = [pc EXCEPT ![w] = "idle"]
    /\ UNCHANGED <<cache_head_pointer, total_cache_size_bytes,
                   new_element_total_size, now>>
    /\ ListSteps

\* lines 1006 and 1025-1029: the element does not fit, remove_cache_element is
\* called
AddEvicts(w) ==
    /\ pc[w] \in {"add_check", "add_loop"}
    /\ pc[w] = "add_check" => ~(new_element_total_size[w] > MAX_ELEMENT_SIZE)
    /\ total_cache_size_bytes + new_element_total_size[w] > MAX_SIZE
    /\ pc' = [pc EXCEPT ![w] = "remove_lock"]
    /\ UNCHANGED <<ListVars, OldVars>>
    /\ ListSteps

\* remove_cache_element, line 896: pthread_mutex_lock finds the mutex free
RemoveLock(w) ==
    /\ pc[w] = "remove_lock"
    /\ cache_mutex_lock = NoOwner
    /\ cache_mutex_lock' = w
    /\ pc' = [pc EXCEPT ![w] = "remove"]
    /\ UNCHANGED <<cache_head_pointer, total_cache_size_bytes,
                   new_element_total_size, add_ret, now>>
    /\ ListSteps

\* remove_cache_element, line 896: pthread_mutex_lock on the mutex the thread
\* itself holds (initialised with default attributes at line 667) has no defined
\* behaviour; the call never returns, or it returns an error and leaves the
\* mutex as it is
Relock(w, returns) ==
    /\ pc[w] = "remove_lock"
    /\ cache_mutex_lock = w
    /\ pc' = [pc EXCEPT ![w] = IF returns THEN "remove" ELSE "blocked"]
    /\ UNCHANGED <<ListVars, OldVars>>
    /\ ListSteps

\* remove_cache_element, lines 897-957: the least recently used element is
\* taken out, its size given back, and the mutex unlocked
Remove(w) ==
    /\ pc[w] = "remove"
    /\ IF cache_head_pointer # << >>
       THEN /\ cache_head_pointer' =
                   Unlink(cache_head_pointer, LruIndex(cache_head_pointer))
            /\ total_cache_size_bytes' =
                   total_cache_size_bytes
                       - Footprint(cache_head_pointer[LruIndex(cache_head_pointer)])
       ELSE UNCHANGED <<cache_head_pointer, total_cache_size_bytes>>
    /\ cache_mutex_lock' = MutexUnlock(cache_mutex_lock, w)
    /\ pc' = [pc EXCEPT ![w] = "add_loop"]
    /\ UNCHANGED <<new_element_total_size, add_ret, now>>
    /\ ListSteps

\* lines 1006, 1025 and 1034-1068: the element fits; it is put at the head with
\* the time of the call, the mutex is released and 1 is returned
AddInserts(w) ==
    /\ pc[w] \in {"add_check", "add_loop"}
    /\ pc[w] = "add_check" => ~(new_element_total_size[w] > MAX_ELEMENT_SIZE)
    /\ ~(total_cache_size_bytes + new_element_total_size[w] > MAX_SIZE)
    /\ cache_head_pointer' =
           <<[url |-> raw_req[w], len |-> entry_size[w], lru_time_track |-> now]>>
               \o cache_head_pointer
    /\ total_cache_size_bytes' = total_cache_size_bytes + new_element_total_size[w]
    /\ cache_mutex_lock' = MutexUnlock(cache_mutex_lock, w)
    /\ add_ret' = [add_ret EXCEPT ![w] = 1]
    /\ pc' = [pc EXCEPT ![w] = "idle"]
    /\ UNCHANGED <<new_element_total_size, now>>
    /\ ListSteps

\* main, line 667: the mutex is initialised; the list is empty and every thread
\* is about to call find or add_cache_element
InitList ==
    /\ cache = LRUCache(MAX_CACHE_SIZE)
    /\ cache_lock = NoOwner
    /\ seamaphore = MAX_CLIENTS
    /\ pc = [w \in Workers |-> "idle"]
    /\ raw_req = [w \in Workers |-> EmptyString]
    /\ temp_cache_data = [w \in Workers |-> EmptyString]
    /\ it = [w \in Workers |-> End]
    /\ entry_size = [w \in Workers |-> 0]
    /\ client_sock = [w \in Workers |-> "none"]
    /\ remote_sock = [w \in Workers |-> "none"]
    /\ client_out = [w \in Workers |-> << >>]
    /\ tokens = [w \in Workers |-> 0]
    /\ seq_cache = LRUCache(MAX_CACHE_SIZE)
    /\ seq_ret = [w \in Workers |-> EmptyString]
    /\ recency = << >>
    /\ last_op = NoOp
    /\ outcome = [w \in Workers |-> NoOutcome]
    /\ client_closes = [w \in Workers |-> << >>]
    /\ remote_closes = [w \in Workers |-> << >>]
    /\ total_bytes = [w \in Workers |-> 0]
    /\ header_complete = [w \in Workers |-> FALSE]
    /\ NoRewrite
    /\ NoSend
    /\ AtAccept
    /\ NoList
    /\ NoOld

NextList ==
    \/ Tick
    \/ \E w \in Workers :
           \/ \E url \in ListUrls : FindUrl(w, url)
           \/ \E size \in ResponseSizes, url \in ListUrls : AddLock(w, size, url)
           \/ AddTooLarge(w)
           \/ AddEvicts(w)
           \/ RemoveLock(w)
           \/ \E returns \in BOOLEAN : Relock(w, returns)
           \/ Remove(w)
           \/ AddInserts(w)

SpecList == InitList /\ [][NextList]_vars

\* C25: a call of add_cache_element whose element is within MAX_ELEMENT_SIZE and
\* does not fit goes through: no thread is blocked for ever in it, the sizes of
\* the elements in the list add up to total_cache_size_bytes, which is within
\* MAX_SIZE, and a thread that is in no call does not hold the mutex.
C25_AddWithEvictionReturns ==
    /\ \A w \in Workers : pc[w] # "blocked"
    /\ total_cache_size_bytes <= MAX_SIZE
    /\ \A w \in Workers : pc[w] = "idle" => cache_mutex_lock # w

(***************************************************************************)
(* SpecRace: two workers have received the same request, both have missed  *)
(* the cache (thread_fn, lines 240-246) and both call put (handle_request, *)
(* line 195) with what they fetched                                        *)
(***************************************************************************)
Racers == {1, 2}

\* the cache the two workers missed: empty, or holding another request
RaceCaches ==
    {LRUCache(MAX_CACHE_SIZE), LRUPut(LRUCache(MAX_CACHE_SIZE), ReqGetB, <<1>>)}

InitRace ==
    /\ cache \in RaceCaches
    /\ cache_lock = NoOwner
    /\ seamaphore = 0
    /\ pc = [t \in Threads |-> IF t \in Racers THEN "miss" ELSE "lookup"]
    /\ raw_req = [t \in Threads |-> IF t \in Racers THEN ReqGetA ELSE EmptyString]
    /\ temp_cache_data = [t \in Threads |-> EmptyString]
    /\ it = [t \in Threads |-> End]
    /\ entry_size = [t \in Threads |-> 0]
    /\ client_sock = [t \in Threads |-> "open"]
    /\ remote_sock = [t \in Threads |-> "none"]
    /\ client_out = [t \in Threads |-> << >>]
    /\ tokens = [t \in Threads |-> 1]
    /\ seq_cache = cache
    /\ seq_ret = [t \in Threads |-> EmptyString]
    /\ recency = [i \in 1 .. Len(cache.lru_list) |-> cache.lru_list[i].url]
    /\ last_op = AfterGet(AfterGet(NoOp, ReqGetA, EmptyString, EmptyString),
                          ReqGetA, EmptyString, EmptyString)
    /\ outcome = [t \in Threads |-> NoOutcome]
    /\ client_closes = [t \in Threads |-> << >>]
    /\ remote_closes = [t \in Threads |-> << >>]
    /\ total_bytes = [t \in Threads |-> 0]
    /\ header_complete = [t \in Threads |-> FALSE]
    /\ NoRewrite
    /\ NoSend
    /\ AtAccept
    /\ NoList
    /\ NoOld

NextRace ==
    \E t \in Threads :
        \/ \E d \in CacheResponses : PutLock(t, d)
        \/ PutSize(t)
        \/ PutOld(t)
        \/ PutEvict(t)
        \/ PutInsert(t)

SpecRace == InitRace /\ [][NextRace]_vars

\* both workers have returned from put
BothPut == \A t \in Racers : pc[t] = "lookup"

C28_BufferWithinLimit ==
    \A w \in Workers :
        /\ Len(raw_req[w]) <= MAX_HEADER_SIZE
        /\ total_bytes[w] <= MAX_HEADER_SIZE

\* the bytes of r up to and including its first terminator
HeaderSection(r) ==
    SubSeq(r, 1, (CHOOSE n \in 4 .. Len(r) :
                      /\ SubSeq(r, n - 3, n) = CRLFCRLF
                      /\ ~Contains(SubSeq(r, 1, n - 1), CRLFCRLF)))

\* C29: the key of the lookup, and of the later put, is the received bytes up to
\* and including the first terminator; bytes received after the terminator are
\* no part of it.
C29_KeyIsHeaderSection ==
    \A w \in Workers :
        pc[w] = "lookup"
        => /\ Contains(raw_req[w], CRLFCRLF)
           /\ raw_req[w] = HeaderSection(raw_req[w])

(***************************************************************************)
(* SpecLive: the connections of one worker slot, one after the other, with *)
(* upstream responses of any length, and every call of the worker          *)
(* returning in the end.  A worker waits for another one only in sem_wait, *)
(* so the others are left out.                                             *)
(***************************************************************************)
\* handle_request, lines 189-191, past the MaxResponse bytes of the response that
\* temp_cache_data and client_out keep here: recv delivers one more chunk, which
\* is sent on and appended
RelayMore(w, chunk) ==
    /\ pc[w] = "relay"
    /\ Len(temp_cache_data[w]) + Len(chunk) > MaxResponse
    /\ buffer' = chunk
    /\ UNCHANGED <<cache, cache_lock, seamaphore, pc, raw_req, temp_cache_data, it,
                   entry_size, client_sock, remote_sock, client_out, tokens,
                   seq_cache, seq_ret, recency, last_op, outcome, client_closes,
                   remote_closes, total_bytes, header_complete, RewriteVars,
                   upstream, upstream_read, total_sent, handed, send_ret, errno,
                   MainVars, ListVars, OldVars>>

\* a faulty LiveStep: the thread never leaves the relay loop
LiveStepStaysInRelay(w) ==
    \/ Admit(w)
    \/ \E r \in Requests : RecvHeaders(w, r)
    \/ \E got \in {0, 1}, sent \in BOOLEAN : RecvIncomplete(w, got, sent)
    \/ \E sent \in BOOLEAN : LookupHit(w, sent)
    \/ \E sent \in BOOLEAN : LookupMiss(w, sent)
    \/ ConnectOk(w)
    \/ \E at \in {"socket", "resolve", "connect"}, sent \in BOOLEAN :
           ConnectFails(w, at, sent)
    \/ SendRequestOk(w)
    \/ \E sent \in BOOLEAN : SendRequestFails(w, sent)
    \/ \E chunk \in RelayChunks : RelayChunk(w, chunk)
    \/ CloseClient(w)
    \/ Release(w)

\* thread_fn, lines 206-272: a step of the thread of worker w
LiveStep(w) ==
    \/ Admit(w)
    \/ \E r \in Requests : RecvHeaders(w, r)
    \/ \E got \in {0, 1}, sent \in BOOLEAN : RecvIncomplete(w, got, sent)
    \/ \E sent \in BOOLEAN : LookupHit(w, sent)
    \/ \E sent \in BOOLEAN : LookupMiss(w, sent)
    \/ ConnectOk(w)
    \/ \E at \in {"socket", "resolve", "connect"}, sent \in BOOLEAN :
           ConnectFails(w, at, sent)
    \/ SendRequestOk(w)
    \/ \E sent \in BOOLEAN : SendRequestFails(w, sent)
    \/ \E chunk \in RelayChunks : RelayChunk(w, chunk)
    \/ \E chunk \in RelayChunks : RelayMore(w, chunk)
    \/ \E recved \in {0, -1} : RelayEnds(w, recved)
    \/ \E chunk \in RelayChunks, n \in 0 .. MaxResponse : RelaySendFails(w, chunk, n)
    \/ CloseClient(w)
    \/ Release(w)

NextLive ==
    \/ AcceptAndSpawn(1)
    \/ SpawnFails(1)
    \/ LiveStep(1)

\* every call the thread is in returns in the end, and the thread is scheduled
SpecLive == Init /\ [][NextLive]_vars /\ WF_vars(LiveStep(1))

\* the worker holds its permit and has not yet closed its client socket
Serving(w) == tokens[w] = 1 /\ pc[w] # "release"

\* the worker has shut down and closed its client socket and still holds its permit
ClosedNotReleased(w) ==
    pc[w] = "release" /\ client_sock[w] = "closed" /\ tokens[w] = 1

\* the thread has ended and has given its permit back
Released(w) == pc[w] = "done" /\ tokens[w] = 0 /\ client_sock[w] = "closed"

\* C30 as stated: when every call returns in the end, a worker that has taken a
\* permit closes its client socket in the end and gives the permit back after
\* that.
C30_WorkerTerminates ==
    /\ Serving(1) ~> ClosedNotReleased(1)
    /\ ClosedNotReleased(1) ~> Released(1)

\* C30, amended: when every call returns in the end and the upstream response
\* comes to an end (recv on the upstream socket delivers bytes only finitely
\* often), a worker that has taken a permit closes its client socket in the end
\* and gives the permit back after that.
C30_WorkerTerminatesOnFiniteResponse ==
    \/ []<><<\E chunk \in RelayChunks : RelayMore(1, chunk)>>_vars
    \/ /\ Serving(1) ~> ClosedNotReleased(1)
       /\ ClosedNotReleased(1) ~> Released(1)

\* a worker that relayed more than MaxResponse bytes has closed its client
\* socket and is about to give its permit back
C30_Witness ==
    /\ ClosedNotReleased(1)
    /\ buffer # << >>
    /\ client_closes[1] = <<"worker">>

(***************************************************************************)
(* Properties of the cache mutex, checked under SpecCache                  *)
(***************************************************************************)
\* the next step of thread t inside get or put
CacheStep(t) ==
    \/ GetFind(t)
    \/ GetSplice(t)
    \/ GetRet(t)
    \/ PutSize(t)
    \/ PutOld(t)
    \/ PutEvict(t)
    \/ PutInsert(t)

\* C31: a thread holds cache_lock exactly while it is inside get or put, so it
\* never asks for the mutex while holding it, has released it on every return
\* (the miss and the too large entry included), and does not hold it at the
\* lookup or after the miss, where it waits for sockets; the holder of the mutex
\* always has a next step, so no call of the cache waits for ever.
C31_MutexDiscipline ==
    /\ \A t \in Threads : cache_lock = t <=> (InGet(t) \/ InPut(t))
    /\ \A t \in Threads : pc[t] \in {"lookup", "miss"} => cache_lock # t
    /\ \A t \in Threads : cache_lock = t => ENABLED CacheStep(t)

\* a put that found its entry too large has returned: the mutex is free and
\* nothing is stored, while another thread is inside get
C31_Witness ==
    /\ last_op.op = "put"
    /\ last_op.puts = 0
    /\ cache_lock # NoOwner
    /\ \E t \in Threads : InGet(t) /\ cache_lock = t
    /\ \E t \in Threads : pc[t] = "miss"


(***************************************************************************)
(* The upstream port: handle_request lines 173-176 and connectRemoteServer. *)
(* The parsed request's port is any short string, or absent.               *)
(***************************************************************************)
MaxPortLen == 2

\* '8', '0', 'a' and '-'
PortChars == {56, 48, 97, 45}

RECURSIVE StringsOver(_, _)
StringsOver(chars, n) ==
    IF n = 0 THEN {<< >>}
    ELSE LET shorter == StringsOver(chars, n - 1)
         IN  shorter \cup {Append(s, c) : s \in {t \in shorter : Len(t) = n - 1},
                                           c \in chars}

Ports == StringsOver(PortChars, MaxPortLen) \cup {NoPort}

PortRequests == {[r EXCEPT !.port = p] : r \in {q \in ParsedRequests : q.headers = << >>},
                                         p \in Ports}

\* line 118: htons takes a uint16_t
Htons(port_num) == port_num % 65536

\* connect (line 121) to port 0 of any address fails; to another port, the
\* remote host decides
Connectable(port_num) == Htons(port_num) # 0

InitPort ==
    /\ cache = LRUCache(MAX_CACHE_SIZE)
    /\ cache_lock = NoOwner
    /\ seamaphore = MAX_CLIENTS - 1
    /\ pc = [w \in Workers |-> IF w = 1 THEN "handle_request" ELSE "none"]
    /\ raw_req = [w \in Workers |-> IF w = 1 THEN ReqGetA ELSE EmptyString]
    /\ temp_cache_data = [w \in Workers |-> EmptyString]
    /\ it = [w \in Workers |-> End]
    /\ entry_size = [w \in Workers |-> 0]
    /\ client_sock = [w \in Workers |-> IF w = 1 THEN "open" ELSE "none"]
    /\ remote_sock = [w \in Workers |-> "none"]
    /\ client_out = [w \in Workers |-> << >>]
    /\ tokens = [w \in Workers |-> IF w = 1 THEN 1 ELSE 0]
    /\ seq_cache = LRUCache(MAX_CACHE_SIZE)
    /\ seq_ret = [w \in Workers |-> EmptyString]
    /\ recency = << >>
    /\ last_op = NoOp
    /\ outcome = [w \in Workers |-> NoOutcome]
    /\ client_closes = [w \in Workers |-> << >>]
    /\ remote_closes = [w \in Workers |-> << >>]
    /\ total_bytes = [w \in Workers |-> 0]
    /\ header_complete = [w \in Workers |-> FALSE]
    /\ request \in PortRequests
    /\ req_str = << >>
    /\ server_port = 80
    /\ NoSend
    /\ AtAccept
    /\ NoList
    /\ NoOld

\* connectRemoteServer returns a descriptor (line 126): the port can be connected to
ConnectOkAt(w) == Connectable(server_port) /\ ConnectOk(w)

NextPort ==
    \E w \in Workers :
        \/ BuildRequest(w)
        \/ ConnectOkAt(w)
        \/ \E at \in {"socket", "resolve", "connect"}, sent \in BOOLEAN :
               ConnectFails(w, at, sent)
        \/ SendRequestOk(w)
        \/ \E sent \in BOOLEAN : SendRequestFails(w, sent)
        \/ \E chunk \in RelayChunks : RelayChunk(w, chunk)
        \/ \E recved \in {0, -1} : RelayEnds(w, recved)
        \/ \E chunk \in RelayChunks, n \in 0 .. MaxResponse :
               RelaySendFails(w, chunk, n)
        \/ CloseClient(w)
        \/ Release(w)

SpecPort == InitPort /\ [][NextPort]_vars

(***************************************************************************)
(* Properties of the upstream port, checked under SpecPort                 *)
(***************************************************************************)
\* s is one or more decimal digits
IsDecimal(s) == s # << >> /\ \A i \in 1 .. Len(s) : s[i] \in 48 .. 57

\* the number a string of decimal digits denotes
RECURSIVE DecimalValue(_)
DecimalValue(s) ==
    IF s = << >> THEN 0
    ELSE 10 * DecimalValue(SubSeq(s, 1, Len(s) - 1)) + (s[Len(s)] - 48)

\* C32: once handle_request has determined the port, it is 80 when the parsed
\* request has none, the decimal value of the port when it is a number, and 0
\* when the port is present but not a number; in the last case no upstream
\* connection is open, nothing is cached, and the client is sent 500.
C32_UpstreamPort ==
    \A w \in Workers :
        pc[w] \in {"connect", "send_request", "relay", "close", "release", "done"} =>
            /\ request.port = NoPort => server_port = 80
            /\ (request.port # NoPort /\ IsDecimal(request.port)) =>
                   server_port = DecimalValue(request.port)
            /\ (request.port # NoPort /\ ~IsDecimal(request.port)) =>
                   /\ server_port = 0
                   /\ remote_sock[w] # "open"
                   /\ cache = LRUCache(MAX_CACHE_SIZE)
                   /\ outcome[w] # NoOutcome =>
                          /\ outcome[w].path = "connect_fails"
                          /\ outcome[w].sent => client_out[w] = <<500>>


(***************************************************************************)
(* The empty stored value, checked under Spec                              *)
(***************************************************************************)
\* C33: when a worker looks up a key that is stored with the empty value, what
\* get returns differs from what it returns when the key is absent, and the
\* worker takes the hit path: it does not parse and opens no upstream connection.
C33_EmptyValueIsAHit ==
    [][\A w \in Workers :
          (/\ LooksUp(w)
           /\ raw_req[w] \in Keys(cache)
           /\ StoredValue(cache, raw_req[w]) = EmptyString)
          => /\ LRUGet(cache, raw_req[w]).ret
                    # LRUGet(RemoveOld(cache, raw_req[w]), raw_req[w]).ret
             /\ outcome'[w].path = "hit"
             /\ pc'[w] = "close"
             /\ remote_sock'[w] = "none"]_vars


(***************************************************************************)
(* The receive loop and the way recv splits the client's bytes, checked    *)
(* under SpecRecv                                                          *)
(***************************************************************************)
\* thread_fn, lines 225-236, on the byte stream s when every recv delivers one
\* byte, with total bytes accepted so far: the way the loop ends, "exhausted"
\* when it is still in recv after the last byte of s
RECURSIVE OneByteAtATime(_, _)
OneByteAtATime(s, total) ==
    IF ~(total < MAX_HEADER_SIZE) THEN "too_long"
    ELSE IF total = Len(s) THEN "exhausted"
    ELSE IF Contains(SubSeq(s, 1, total + 1), CRLFCRLF) THEN "lookup"
    ELSE OneByteAtATime(s, total + 1)

\* C34: the way the receive loop ends is the same for every way recv splits the
\* client's byte stream: a worker that goes to the lookup, or ends on the size
\* limit, after receiving raw_req does what it does when the same bytes arrive
\* one by one.
C34_OutcomeIndependentOfChunks ==
    \A w \in Workers :
        /\ pc[w] = "lookup" => OneByteAtATime(raw_req[w], 0) = "lookup"
        /\ (outcome[w] # NoOutcome /\ outcome[w].path = "too_long")
               => OneByteAtATime(raw_req[w], 0) = "too_long"


(***************************************************************************)
(* The value handed to put, checked under SpecSend                         *)
(***************************************************************************)
\* s is the beginning of t
IsPrefixOf(s, t) == Len(s) <= Len(t) /\ SubSeq(t, 1, Len(s)) = s

\* the chunks send_all has sent to the client of w in full, one after the
\* other: what the client was sent, less the part of a chunk whose send_all is
\* under way or has failed
CompletelySent(w) ==
    IF pc[w] = "send_all" \/ outcome[w].path = "client_send_fails"
    THEN SubSeq(client_out[w], 1, Len(client_out[w]) - Len(handed))
    ELSE client_out[w]

\* C35: the value handed to put, and the value stored by it, is a prefix of the
\* bytes the upstream sends for the request and is the concatenation of the
\* chunks sent to the client in full; a chunk whose send failed is no part of it.
C35_StoredValueIsWhatWasSent ==
    \A w \in Workers :
        /\ pc[w] \in {"relay_recv", "send_all", "after_relay"}
           => /\ temp_cache_data[w] = CompletelySent(w)
              /\ IsPrefixOf(temp_cache_data[w], upstream_read \o upstream)
        /\ (pc[w] = "close" /\ ReqGetA \in Keys(cache))
           => /\ StoredValue(cache, ReqGetA) = CompletelySent(w)
              /\ IsPrefixOf(StoredValue(cache, ReqGetA), upstream_read \o upstream)

\* the first chunk was sent in full and stored; of the second chunk, one byte
\* reached the client before the send failed, and it is not stored
C35_Witness ==
    /\ pc[1] = "close"
    /\ outcome[1].path = "client_send_fails"
    /\ Len(handed) = 1
    /\ Len(buffer) = 2
    /\ ReqGetA \in Keys(cache)
    /\ Len(StoredValue(cache, ReqGetA)) = 2
    /\ Len(client_out[1]) = 3


(***************************************************************************)
(* The number of worker threads, checked under Spec                        *)
(***************************************************************************)
\* the worker threads that exist and hold an open client socket, those waiting
\* in sem_wait included
ThreadsWithSocket == {w \in Workers : ~Free(w) /\ client_sock[w] = "open"}

\* C36: at most MAX_CLIENTS worker threads holding an open client socket exist
\* at any moment, the workers waiting in sem_wait included, and main creates a
\* worker only when a permit is available.
C36_AtMostMaxClientsThreads ==
    /\ [](Cardinality(ThreadsWithSocket) <= MAX_CLIENTS)
    /\ [][\A w \in Workers :
             (Free(w) /\ pc'[w] = "sem_wait") => seamaphore > 0]_vars


(***************************************************************************)
(* SpecGate: Spec with every thread scheduled.  A thread that can take a   *)
(* step from some moment on takes one, so every call of an admitted worker *)
(* returns and the worker ends; sem_wait returns for a waiting thread when *)
(* the permit is still there at the moment the thread runs.  sem_post      *)
(* hands the permit to no thread in particular.                            *)
(***************************************************************************)
\* a step of the thread of worker w: thread_fn, lines 206-272
WorkerStep(w) ==
    \/ Admit(w)
    \/ \E r \in Requests : RecvHeaders(w, r)
    \/ \E got \in {0, 1}, sent \in BOOLEAN : RecvIncomplete(w, got, sent)
    \/ \E sent \in BOOLEAN : LookupHit(w, sent)
    \/ \E sent \in BOOLEAN : LookupMiss(w, sent)
    \/ ConnectOk(w)
    \/ \E at \in {"socket", "resolve", "connect"}, sent \in BOOLEAN :
           ConnectFails(w, at, sent)
    \/ SendRequestOk(w)
    \/ \E sent \in BOOLEAN : SendRequestFails(w, sent)
    \/ \E chunk \in RelayChunks : RelayChunk(w, chunk)
    \/ \E recved \in {0, -1} : RelayEnds(w, recved)
    \/ \E chunk \in RelayChunks, n \in 0 .. MaxResponse : RelaySendFails(w, chunk, n)
    \/ CloseClient(w)
    \/ Release(w)

SpecGate == Init /\ [][Next]_vars /\ \A w \in Workers : WF_vars(WorkerStep(w))

\* C37: when every thread is scheduled and every admitted worker ends, a worker
\* that waits in sem_wait is admitted in the end, also when connections keep
\* arriving.
C37_WaiterIsAdmitted ==
    \A w \in Workers : (pc[w] = "sem_wait") ~> (pc[w] = "recv" /\ tokens[w] = 1)


(***************************************************************************)
(* SpecHit: the cache hit of thread_fn in proxy_server_with_cache.c, lines *)
(* 540-561, for one thread.  find has returned an element whose data is a  *)
(* C string of len bytes in a block of len + 1 bytes (add_cache_element,   *)
(* lines 1038-1039 and 1048).                                              *)
(***************************************************************************)
\* the longest cached response
MaxCached == 4

\* the strings of "A" and "B" up to MaxCached bytes
CachedData == UNION {[1 .. n -> {65, 66}] : n \in 0 .. MaxCached}

\* what a byte outside the block of data may hold
StrayBytes == {0, 88}

\* cached_response->data[index], line 555: a byte of the response, its
\* terminating 0 at index len, and beyond the block whatever is there
DataAt(element, index, stray) ==
    IF index < element.len THEN element.data[index + 1]
    ELSE IF index = element.len THEN 0
    ELSE stray

\* lines 552-557: response_chunk_buffer after the inner loop, which copies
\* MAX_BYTES bytes starting at index from
ChunkFrom(element, from, strays) ==
    [i \in 1 .. MAX_BYTES |-> DataAt(element, from + i - 1, strays[i])]

\* the inner loop reads outside the block of data
ReadsOutsideBlock(element, from) == from + MAX_BYTES - 1 > element.len

HitSteps ==
    UNCHANGED <<cache, cache_lock, seamaphore, raw_req, temp_cache_data, it,
                entry_size, client_sock, remote_sock, tokens, seq_cache, seq_ret,
                recency, last_op, client_closes, remote_closes, total_bytes,
                header_complete, RewriteVars, SendVars, MainVars, ListVars,
                cached_response, thread_counter, client_socket_fd_array,
                client_threads>>

\* lines 550-559, one round of the outer loop: MAX_BYTES bytes are copied and
\* handed to send, whose result is not looked at; ok tells whether send took them
HitSendChunk(w, strays, ok) ==
    /\ pc[w] = "hit_send"
    /\ current_send_position < cached_response.len
    /\ current_send_position' = current_send_position + MAX_BYTES
    /\ client_out' = [client_out EXCEPT ![w] =
           IF ok THEN @ \o ChunkFrom(cached_response, current_send_position, strays)
           ELSE @]
    /\ outcome' = [outcome EXCEPT ![w] = [path |-> "hit", sent |-> @.sent /\ ok]]
    /\ UNCHANGED pc
    /\ HitSteps

\* line 555, reading outside the block of data: the read faults and the process
\* is killed
HitSendFaults(w) ==
    /\ pc[w] = "hit_send"
    /\ current_send_position < cached_response.len
    /\ ReadsOutsideBlock(cached_response, current_send_position)
    /\ pc' = [pc EXCEPT ![w] = "killed"]
    /\ UNCHANGED <<current_send_position, client_out, outcome>>
    /\ HitSteps

\* line 550: the loop test fails; line 560 follows
HitSendDone(w) ==
    /\ pc[w] = "hit_send"
    /\ ~(current_send_position < cached_response.len)
    /\ pc' = [pc EXCEPT ![w] = "hit_sent"]
    /\ outcome' = [outcome EXCEPT ![w] = [path |-> "hit", sent |-> @.sent]]
    /\ UNCHANGED <<current_send_position, client_out>>
    /\ HitSteps

\* thread_fn at line 550 for thread 1, which holds a permit; find has returned
\* one of the responses of CachedData
InitHit ==
    /\ cache = LRUCache(MAX_CACHE_SIZE)
    /\ cache_lock = NoOwner
    /\ seamaphore = MAX_CLIENTS - 1
    /\ pc = [w \in Workers |-> IF w = 1 THEN "hit_send" ELSE "none"]
    /\ raw_req = [w \in Workers |-> EmptyString]
    /\ temp_cache_data = [w \in Workers |-> EmptyString]
    /\ it = [w \in Workers |-> End]
    /\ entry_size = [w \in Workers |-> 0]
    /\ client_sock = [w \in Workers |-> IF w = 1 THEN "open" ELSE "none"]
    /\ remote_sock = [w \in Workers |-> "none"]
    /\ client_out = [w \in Workers |-> << >>]
    /\ tokens = [w \in Workers |-> IF w = 1 THEN 1 ELSE 0]
    /\ seq_cache = LRUCache(MAX_CACHE_SIZE)
    /\ seq_ret = [w \in Workers |-> EmptyString]
    /\ recency = << >>
    /\ last_op = NoOp
    /\ outcome = [w \in Workers |-> NoOutcome]
    /\ client_closes = [w \in Workers |-> << >>]
    /\ remote_closes = [w \in Workers |-> << >>]
    /\ total_bytes = [w \in Workers |-> 0]
    /\ header_complete = [w \in Workers |-> FALSE]
    /\ NoRewrite
    /\ NoSend
    /\ AtAccept
    /\ NoList
    /\ cached_response \in {[data |-> d, len |-> Len(d)] : d \in CachedData}
    /\ current_send_position = 0
    /\ thread_counter = 0
    /\ client_socket_fd_array = [i \in 0 .. MAX_CLIENTS - 1 |-> NoFd]
    /\ client_threads = << >>

NextHit ==
    \E w \in Workers :
        \/ \E strays \in [1 .. MAX_BYTES -> StrayBytes], ok \in BOOLEAN :
               HitSendChunk(w, strays, ok)
        \/ HitSendFaults(w)
        \/ HitSendDone(w)

SpecHit == InitHit /\ [][NextHit]_vars

(***************************************************************************)
(* Properties of the cache hit, checked under SpecHit                      *)
(***************************************************************************)
\* C38: on a cache hit the send loop reads no index of data at or beyond len,
\* and when it has ended with every send taken, the client has been sent the
\* len bytes of the cached response and nothing else, whatever len is.
C38_HitSendsCachedResponse ==
    \A w \in Workers :
        /\ pc[w] \in {"hit_send", "hit_sent"}
           => current_send_position <= cached_response.len
        /\ pc[w] # "killed"
        /\ (pc[w] = "hit_sent" /\ outcome[w].sent)
           => client_out[w] = cached_response.data


(***************************************************************************)
(* SpecLoop: the accept loop of main in proxy_server_with_cache.c, lines   *)
(* 725-761, and the threads it creates up to the read of their argument    *)
(* (thread_fn, lines 497-498).                                             *)
(***************************************************************************)
\* the connections main accepts here
MaxAccepts == 3

\* the descriptors accept returns
Fds == {3, 4}

\* index is an index of client_socket_fd_array and of client_thread_ids
InArray(index) == index \in 0 .. MAX_CLIENTS - 1

\* line 746, client_socket_fd_array[index] = fd: a store outside the array
\* changes memory that is no slot of it
StoreAt(array, index, fd) ==
    IF InArray(index) THEN [array EXCEPT ![index] = fd] ELSE array

LoopSteps ==
    UNCHANGED <<cache, cache_lock, seamaphore, pc, raw_req, temp_cache_data, it,
                entry_size, client_sock, remote_sock, client_out, tokens, seq_cache,
                seq_ret, recency, last_op, outcome, client_closes, remote_closes,
                total_bytes, header_complete, RewriteVars, SendVars, ListVars,
                main_errno, cached_response, current_send_position>>

\* lines 733-759: accept returns fd, which is stored at thread_counter;
\* pthread_create, whose result is not looked at, starts a thread on the address
\* of that slot when created holds; thread_counter goes up
OldAccept(fd, created) ==
    /\ main_pc = "accept"
    /\ thread_counter < MaxAccepts
    /\ client_socket_fd_array' = StoreAt(client_socket_fd_array, thread_counter, fd)
    /\ client_threads' =
           IF created
           THEN Append(client_threads, [socket_fd_ptr |-> thread_counter,
                                        accepted |-> fd,
                                        client_socket_fd |-> NoFd])
           ELSE client_threads
    /\ thread_counter' = thread_counter + 1
    /\ UNCHANGED main_pc
    /\ LoopSteps

\* lines 746 and 758, storing outside the arrays: the store faults and the
\* process is killed
OldAcceptFaults ==
    /\ main_pc = "accept"
    /\ thread_counter < MaxAccepts
    /\ ~InArray(thread_counter)
    /\ main_pc' = "killed"
    /\ UNCHANGED <<thread_counter, client_socket_fd_array, client_threads>>
    /\ LoopSteps

\* lines 738-743: accept fails and main calls exit(1)
OldAcceptFails ==
    /\ main_pc = "accept"
    /\ main_pc' = "exited"
    /\ UNCHANGED <<thread_counter, client_socket_fd_array, client_threads>>
    /\ LoopSteps

\* thread_fn, lines 497-498: thread t reads its descriptor through its argument;
\* an argument that points outside the array yields whatever is there
ThreadReads(t, stray) ==
    /\ main_pc # "killed"
    /\ t \in 1 .. Len(client_threads)
    /\ client_threads[t].client_socket_fd = NoFd
    /\ client_threads' =
           [client_threads EXCEPT ![t].client_socket_fd =
               IF InArray(client_threads[t].socket_fd_ptr)
               THEN client_socket_fd_array[client_threads[t].socket_fd_ptr]
               ELSE stray]
    /\ UNCHANGED <<main_pc, thread_counter, client_socket_fd_array>>
    /\ LoopSteps

\* main at line 731 for the first time
InitLoop ==
    /\ cache = LRUCache(MAX_CACHE_SIZE)
    /\ cache_lock = NoOwner
    /\ seamaphore = MAX_CLIENTS
    /\ pc = [w \in Workers |-> "none"]
    /\ raw_req = [w \in Workers |-> EmptyString]
    /\ temp_cache_data = [w \in Workers |-> EmptyString]
    /\ it = [w \in Workers |-> End]
    /\ entry_size = [w \in Workers |-> 0]
    /\ client_sock = [w \in Workers |-> "none"]
    /\ remote_sock = [w \in Workers |-> "none"]
    /\ client_out = [w \in Workers |-> << >>]
    /\ tokens = [w \in Workers |-> 0]
    /\ seq_cache = LRUCache(MAX_CACHE_SIZE)
    /\ seq_ret = [w \in Workers |-> EmptyString]
    /\ recency = << >>
    /\ last_op = NoOp
    /\ outcome = [w \in Workers |-> NoOutcome]
    /\ client_closes = [w \in Workers |-> << >>]
    /\ remote_closes = [w \in Workers |-> << >>]
    /\ total_bytes = [w \in Workers |-> 0]
    /\ header_complete = [w \in Workers |-> FALSE]
    /\ NoRewrite
    /\ NoSend
    /\ AtAccept
    /\ NoList
    /\ NoOld

NextLoop ==
    \/ \E fd \in Fds, created \in BOOLEAN : OldAccept(fd, created)
    \/ OldAcceptFaults
    \/ OldAcceptFails
    \/ \E t \in 1 .. MaxAccepts, stray \in Fds \cup {NoFd} : ThreadReads(t, stray)

SpecLoop == InitLoop /\ [][NextLoop]_vars

(***************************************************************************)
(* Properties of the accept loop, checked under SpecLoop                   *)
(***************************************************************************)
\* C39: whenever main uses thread_counter as an index (the step that stores the
\* descriptor, creates the thread and counts it), thread_counter is an index of
\* the arrays; and a thread that has read its descriptor has read the one accept
\* returned for it.
C39_ThreadCounterInBounds ==
    /\ [][thread_counter' # thread_counter => InArray(thread_counter)]_vars
    /\ [](main_pc # "killed")
    /\ [](\A t \in 1 .. Len(client_threads) :
             client_threads[t].client_socket_fd # NoFd
             => client_threads[t].client_socket_fd = client_threads[t].accepted)

====
